---------------------------- MODULE Spec2Model ----------------------------
(***************************************************************************)
(* Task queue, single-concurrency worker loop and task endpoints of the    *)
(* translation service.                                                    *)
(*                                                                         *)
(* The repository holds two revisions of the service.  `program' selects   *)
(* which one runs:                                                         *)
(*   "main"    - the monolithic app of main.py (background_worker,         *)
(*               handle_upload, delete_task, one global API token);        *)
(*   "routers" - the modular app (worker.py, routers/tasks.py, storage.py, *)
(*               routers/ws.py, per-caller tokens).                        *)
(* Both run on one asyncio event loop: code between two awaits is one      *)
(* atomic step, and a step of another coroutine can only happen while the  *)
(* current one is suspended in an await.                                   *)
(*                                                                         *)
(* Scope: tabular (csv) tasks, the task store, the worker loop, the job    *)
(* as far as it touches the store, upload and delete.  An await on a       *)
(* broadcast is a point where the coroutine may be suspended (it is when   *)
(* an observer is connected and its send does not complete at once).       *)
(***************************************************************************)
EXTENDS Integers, Sequences, FiniteSets, TLC

\* ---- bounds of the model ------------------------------------------------
MaxTasks == 2       \* uploads accepted in one behaviour (ids 1..MaxTasks)
MaxUnits == 11      \* largest number of units selected for translation
MaxRows == 2        \* largest number of rows of a table given to the pipeline
MaxObs == 2         \* observer connections opened in one behaviour
MaxWrites == 2      \* store mutations announced in one behaviour

\* ---- program constants --------------------------------------------------
batch_size == 10    \* "batch_size": 10 stored with every new task

Ids == 1..MaxTasks

\* sizes of the work list a table may have: none, one unit, exactly one
\* batch, and more than one batch
InputTotals == {0, 1, batch_size, MaxUnits}

Programs == {"main", "routers"}

\* credentials a caller may present; "bad" is in no token list
Credentials == {"t1", "t2", "bad"}

\* main.py: API_TOKEN of the environment
API_TOKEN == "t1"

\* main.py accepts API_TOKEN only; the routers accept every token listed
\* in api_tokens.json
ValidTokens(p) == IF p = "main" THEN {API_TOKEN} ELSE {"t1", "t2"}

\* file extensions of an upload
Extensions == {"csv", "other"}

Terminal == {"completed", "cancelled", "error"}

JobEnded == {"returned", "cancelled", "raised"}

JobActive == {"created", "cb", "gather"}

NoJob == [pc |-> "none", cancel |-> FALSE, total |-> 0, processed |-> 0]

NoRequest == [op |-> "none", id |-> 0, token |-> "bad", code |-> 0]

VARIABLES
    program,              \* which revision of the service is running
    tasks,                \* the Task Store: content of tasks.json, a list of records
    files,                \* files under uploads/: pairs <<task id, kind>>
    running_async_tasks,  \* in-flight registry: ids mapped to an asyncio task
    jobs,                 \* per id, the state of its asyncio job (process_csv)
    wpc,                  \* where the worker loop is suspended
    task_id,              \* the worker's local task_id
    final_status,         \* the worker's local final_status
    nextId,               \* number of ids generated so far + 1
    response              \* the last request handled and its HTTP status

\* one run of process_csv on a table, cell by cell
VARIABLES
    fs,                   \* csv files on disk: path -> content
    csv_path,             \* process_csv: the file the run reads
    overwrite,            \* process_csv: its overwrite argument
    bsize,                \* process_csv: its batch_size argument
    df,                   \* process_csv: the table in memory
    indices_to_update,    \* process_csv: rows selected for translation
    pcount,               \* process_csv: its local processed_count
    reported,             \* arguments of the last progress_callback call
    calls,                \* requests sent to the model by this run
    failed,               \* rows whose request failed in this run
    rerun,                \* TRUE in a second run of the pipeline
    ppc                   \* where the run is: idle, cb, gather, or how it ended

taskvars == <<program, tasks, files, running_async_tasks, jobs, wpc, task_id,
              final_status, nextId, response>>

pipevars == <<fs, csv_path, overwrite, bsize, df, indices_to_update, pcount,
              reported, calls, failed, rerun, ppc>>

\* the observer channel: connections and broadcasts of the task list
VARIABLES
    active_connections,   \* ConnectionManager.active_connections, in list order
    obs,                  \* per connection: new, open, closed (peer gone), gone
    seen,                 \* per connection: version of the last snapshot delivered
    version,              \* number of writes to the store so far
    bc                    \* per broadcasting coroutine, where its broadcast is

wsvars == <<active_connections, obs, seen, version, bc>>

\* the file of the store, write by write
VARIABLES
    tasks_file,           \* tasks.json: the characters on disk, as tokens
    swpc,                 \* the process: idle, writing (inside write_tasks), down
    wold,                 \* the list the store held when the last write began
    wnew,                 \* the list given to the last write
    lastread,             \* what the last read_tasks returned
    fresh                 \* TRUE when lastread was read after the last write began

storevars == <<tasks_file, swpc, wold, wnew, lastread, fresh>>

\* one task of either file type, from pending to its end, and its files
VARIABLES
    file_type,            \* the task's file_type: csv or idml
    readable,             \* the upload can be read (a table with a source column, an archive)
    n_batches,            \* batches the pipeline has to run for this task
    status,               \* the task's status in the store, or deleted
    uploads,              \* paths that exist under uploads/
    dpc,                  \* where the task's job is
    dcancel,              \* cancel() was called on the job
    checkpoints,          \* batches checkpointed so far
    outcome,              \* how the job ended, as the worker sees it
    steps,                \* stages of process_idml carried out, in order
    got                   \* the last answer of download_file

docvars == <<file_type, readable, n_batches, status, uploads, dpc, dcancel,
             checkpoints, outcome, steps, got>>

\* the document codec: one archive through extract and rebuild
VARIABLES
    idml,                 \* the original archive: entries in namelist order
    csv,                  \* the table: the rows of the CSV text, source and target
    rebuilt,              \* the archive rebuild_idml_from_csv returned
    cpc                   \* none, opened, extracted, translated, rebuilt

codecvars == <<idml, csv, rebuilt, cpc>>

\* the glossary rules of one prompt
VARIABLES
    glossary,             \* load_glossary's dictionary: term -> language -> entry
    text_words,           \* the words of the text to translate
    target_lang,          \* the language asked for
    prompt_instructions,  \* the glossary rules put into the prompt
    gpc                   \* none, loaded, compiled

glossvars == <<glossary, text_words, target_lang, prompt_instructions, gpc>>

extravars == <<wsvars, storevars, docvars, codecvars, glossvars>>

vars == <<taskvars, pipevars, extravars>>

Obs == 1..MaxObs

\* coroutines that write the store and then broadcast: the worker and a
\* request handler
Bcasts == {"worker", "handler"}

NoBroadcast ==
    [pc |-> "idle", ver |-> 0, msg |-> 0, copy |-> <<>>, i |-> 0, cur |-> 0,
     start |-> {}, tried |-> {}]

\* no observer ever connects
WsIdle ==
    /\ active_connections = <<>>
    /\ obs = [o \in Obs |-> "new"]
    /\ seen = [o \in Obs |-> -1]
    /\ version = 0
    /\ bc = [b \in Bcasts |-> NoBroadcast]

\* json.dump of the empty list
EmptyFile == <<"[", "]">>

\* the store file is not observed
StoreIdle ==
    /\ tasks_file = EmptyFile
    /\ swpc = "idle"
    /\ wold = <<>>
    /\ wnew = <<>>
    /\ lastread = <<>>
    /\ fresh = FALSE

\* a path is its stem (a list of name parts) and its suffix
NoPath == [stem |-> <<>>, suffix |-> ""]

NoDownload == [status |-> "", code |-> 0, path |-> NoPath]

\* no task is followed
DocIdle ==
    /\ file_type = "csv"
    /\ readable = TRUE
    /\ n_batches = 0
    /\ status = "deleted"
    /\ uploads = {}
    /\ dpc = "none"
    /\ dcancel = FALSE
    /\ checkpoints = 0
    /\ outcome = ""
    /\ steps = <<>>
    /\ got = NoDownload

\* no archive is given to the codec
CodecIdle ==
    /\ idml = <<>>
    /\ csv = <<>>
    /\ rebuilt = <<>>
    /\ cpc = "none"

\* no glossary is loaded and no prompt is built
GlossIdle ==
    /\ glossary = [t \in {} |-> <<>>]
    /\ text_words = <<>>
    /\ target_lang = ""
    /\ prompt_instructions = {}
    /\ gpc = "none"

ExtraIdle == WsIdle /\ StoreIdle /\ DocIdle /\ CodecIdle /\ GlossIdle

\* the upload the first run is given: uploads/<task id>_<filename>
UploadPath == [stem |-> <<"upload">>, suffix |-> ".csv"]

\* no pipeline run: the state of the run's variables while only the
\* service is observed
PipeIdle ==
    /\ fs = [p \in {} |-> <<>>]
    /\ csv_path = NoPath
    /\ overwrite = FALSE
    /\ bsize = batch_size
    /\ df = <<>>
    /\ indices_to_update = <<>>
    /\ pcount = 0
    /\ reported = <<0, 0>>
    /\ calls = 0
    /\ failed = {}
    /\ rerun = FALSE
    /\ ppc = "idle"

\* ---- helpers over the task list ----------------------------------------
Min(a, b) == IF a < b THEN a ELSE b

StoreIds(ts) == {ts[i].id : i \in 1..Len(ts)}

\* next((t for t in tasks if t["id"] == task_id), None): its index, 0 for None
IndexOf(ts, id) ==
    IF \E i \in 1..Len(ts) : ts[i].id = id
    THEN CHOOSE i \in 1..Len(ts) :
            ts[i].id = id /\ \A j \in 1..(i - 1) : ts[j].id # id
    ELSE 0

\* [t for t in tasks if t["id"] != task_id]
RemoveId(ts, id) == SelectSeq(ts, LAMBDA t : t.id # id)

\* for task in tasks: if task['id'] == task_id: task["status"] = s
SetStatus(ts, id, s) ==
    [i \in 1..Len(ts) |-> IF ts[i].id = id THEN [ts[i] EXCEPT !.status = s]
                                            ELSE ts[i]]

\* a loop that forgets the id test and marks every record
MarkAllRunning(ts, id) ==
    [i \in 1..Len(ts) |-> [ts[i] EXCEPT !.status = "running"]]

\* for task in tasks: if task['id'] == task_id: task["status"] = "running"
MarkRunning(ts, id) == SetStatus(ts, id, "running")

\* any(task["status"] == "running" for task in tasks)
is_task_running(ts) == \E i \in 1..Len(ts) : ts[i].status = "running"

\* a scan that takes the newest pending task instead of the oldest
pending_task_newest(ts) ==
    IF \E i \in 1..Len(ts) : ts[i].status = "pending"
    THEN CHOOSE i \in 1..Len(ts) :
            ts[i].status = "pending"
            /\ \A j \in (i + 1)..Len(ts) : ts[j].status # "pending"
    ELSE 0

\* next((task for task in tasks if task["status"] == "pending"), None)
pending_task(ts) ==
    IF \E i \in 1..Len(ts) : ts[i].status = "pending"
    THEN CHOOSE i \in 1..Len(ts) :
            ts[i].status = "pending"
            /\ \A j \in 1..(i - 1) : ts[j].status # "pending"
    ELSE 0

\* a callback that writes back only the record it updates
progress_callback_own_record(ts, id, processed, total) ==
    [i \in 1..Len(SelectSeq(ts, LAMBDA t : t.id = id)) |->
        [SelectSeq(ts, LAMBDA t : t.id = id)[i]
            EXCEPT !.processed = processed, !.total = total]]

\* a callback that stores the count of finished units but not the total
progress_callback_no_total(ts, id, processed, total) ==
    [i \in 1..Len(ts) |->
        IF ts[i].id = id THEN [ts[i] EXCEPT !.processed = processed] ELSE ts[i]]

\* progress_callback: re-read the store, update the record if it is there
progress_callback(ts, id, processed, total) ==
    [i \in 1..Len(ts) |->
        IF ts[i].id = id
        THEN [ts[i] EXCEPT !.processed = processed, !.total = total]
        ELSE ts[i]]

\* ---- binding of the job call --------------------------------------------
\* parameters of process_csv without a default, and all its parameters
process_csv_required ==
    {"csv_path", "source_lang", "target_lang", "ollama_host", "model",
     "batch_size", "overwrite"}

process_csv_params ==
    process_csv_required \cup {"progress_callback", "glossary_path"}

\* keyword arguments each worker passes to process_csv
CallKwargs(p) ==
    IF p = "main"
    THEN {"csv_path", "source_lang", "target_lang", "overwrite",
          "progress_callback", "ollama_host", "model", "batch_size",
          "glossary_path"}
    ELSE {"csv_path", "progress_callback", "ollama_host", "model",
          "batch_size", "glossary_path"}

\* Python binds the call, or raises TypeError before any coroutine exists
CallBinds(kw) == process_csv_required \subseteq kw /\ kw \subseteq process_csv_params

\* ---- initial state ------------------------------------------------------
Init ==
    /\ program \in Programs
    /\ tasks = <<>>
    /\ files = {}
    /\ running_async_tasks = {}
    /\ jobs = [i \in Ids |-> NoJob]
    /\ wpc = "poll"
    /\ task_id = 0
    /\ final_status = ""
    /\ nextId = 1
    /\ response = NoRequest
    /\ PipeIdle
    /\ ExtraIdle


\* ---- task endpoints -----------------------------------------------------
\* an endpoint that numbers every task alike instead of drawing a fresh id
NewTaskSameId(id, tok) ==
    [id |-> 1, status |-> "pending", processed |-> 0, total |-> 0,
     api_token |-> IF program = "main" THEN "none" ELSE tok]

\* new_task of handle_upload; main.py stores no api_token with a task
NewTask(id, tok) ==
    [id |-> id, status |-> "pending", processed |-> 0, total |-> 0,
     api_token |-> IF program = "main" THEN "none" ELSE tok]

\* POST /upload: token check, extension check, save the file, append a task
handle_upload(tok, ext) ==
    /\ IF tok \notin ValidTokens(program)
       THEN /\ response' = [op |-> "upload", id |-> 0, token |-> tok, code |-> 401]
            /\ UNCHANGED <<tasks, files, nextId>>
       ELSE IF ext # "csv"
       THEN /\ response' = [op |-> "upload", id |-> 0, token |-> tok, code |-> 400]
            /\ UNCHANGED <<tasks, files, nextId>>
       ELSE /\ nextId <= MaxTasks
            /\ files' = files \cup {<<nextId, "upload">>}
            /\ tasks' = Append(tasks, NewTask(nextId, tok))
            /\ nextId' = nextId + 1
            /\ response' = [op |-> "upload", id |-> 0, token |-> tok, code |-> 200]
    /\ UNCHANGED <<program, running_async_tasks, jobs, wpc, task_id, final_status>>
    /\ UNCHANGED <<pipevars, extravars>>

\* an endpoint without the ownership test
OwnershipNotChecked(t, tok) == FALSE

\* task_to_delete.get("api_token") != api_token; main.py has no such check
OwnershipRefused(t, tok) == program = "routers" /\ t.api_token # tok

\* asyncio.Task.cancel(): no effect on a task that is already done
cancel(j) == IF j.pc \in JobEnded THEN j ELSE [j EXCEPT !.cancel = TRUE]

\* if task_id in running_tasks: running_tasks[task_id].cancel()
CancelIfRunning(js, reg, id) ==
    IF id \in reg THEN [js EXCEPT ![id] = cancel(js[id])] ELSE js

\* files_to_delete of delete_task (csv task), each unlinked if it exists
FilesOf(id) == {<<id, "upload">>, <<id, "processed">>}

\* DELETE /tasks/{task_id}
delete_task(id, tok) ==
    /\ IF tok \notin ValidTokens(program)
       THEN /\ response' = [op |-> "delete", id |-> id, token |-> tok, code |-> 401]
            /\ UNCHANGED <<tasks, files, jobs>>
       ELSE IF IndexOf(tasks, id) = 0
       THEN /\ response' = [op |-> "delete", id |-> id, token |-> tok, code |-> 404]
            /\ UNCHANGED <<tasks, files, jobs>>
       ELSE IF OwnershipRefused(tasks[IndexOf(tasks, id)], tok)
       THEN /\ response' = [op |-> "delete", id |-> id, token |-> tok, code |-> 403]
            /\ UNCHANGED <<tasks, files, jobs>>
       ELSE /\ jobs' = CancelIfRunning(jobs, running_async_tasks, id)
            /\ tasks' = RemoveId(tasks, id)
            /\ files' = files \ FilesOf(id)
            /\ response' = [op |-> "delete", id |-> id, token |-> tok, code |-> 200]
    /\ UNCHANGED <<program, running_async_tasks, wpc, task_id, final_status, nextId>>
    /\ UNCHANGED <<pipevars, extravars>>

\* ---- the worker loop ----------------------------------------------------
\* worker.py only: cancel every job whose id is no longer in storage
Reconcile(js, reg, ts) ==
    IF program = "routers"
    THEN [i \in Ids |-> IF i \in reg \ StoreIds(ts) THEN cancel(js[i]) ELSE js[i]]
    ELSE js

\* One cycle up to its first await: read the tasks, reconcile, and if no
\* task is running mark the first pending one running and write the list.
PollCycle ==
    /\ wpc = "poll"
    /\ jobs' = Reconcile(jobs, running_async_tasks, tasks)
    /\ IF ~is_task_running(tasks) /\ pending_task(tasks) # 0
       THEN /\ task_id' = tasks[pending_task(tasks)].id
            /\ tasks' = MarkRunning(tasks, tasks[pending_task(tasks)].id)
            /\ wpc' = "bcast_running"
       ELSE /\ wpc' = "sleep"
            /\ UNCHANGED <<tasks, task_id>>
    /\ UNCHANGED <<program, files, running_async_tasks, final_status, nextId, response>>
    /\ UNCHANGED <<pipevars, extravars>>

\* await asyncio.sleep(5) returns
Sleep ==
    /\ wpc = "sleep"
    /\ wpc' = "poll"
    /\ UNCHANGED <<program, tasks, files, running_async_tasks, jobs, task_id,
                   final_status, nextId, response>>
    /\ UNCHANGED <<pipevars, extravars>>

\* After the "running" broadcast: build the process_csv call, create the
\* asyncio task and register it.  A call that does not bind raises
\* TypeError outside any try block and ends the worker coroutine.
StartJob ==
    /\ wpc = "bcast_running"
    /\ IF CallBinds(CallKwargs(program))
       THEN /\ jobs' = [jobs EXCEPT ![task_id] =
                            [pc |-> "created", cancel |-> FALSE,
                             total |-> 0, processed |-> 0]]
            /\ running_async_tasks' = running_async_tasks \cup {task_id}
            /\ final_status' = ""
            /\ wpc' = "await_job"
       ELSE /\ wpc' = "dead"
            /\ UNCHANGED <<jobs, running_async_tasks, final_status>>
    /\ UNCHANGED <<program, tasks, files, task_id, nextId, response>>
    /\ UNCHANGED <<pipevars, extravars>>

\* main.py broadcast_tasks has no try/except: a failing send_json raises
\* out of the worker's own await and ends the worker coroutine.
BroadcastFails ==
    /\ program = "main"
    /\ wpc \in {"bcast_running", "bcast_final"}
    /\ wpc' = "dead"
    /\ UNCHANGED <<program, tasks, files, running_async_tasks, jobs, task_id,
                   final_status, nextId, response>>
    /\ UNCHANGED <<pipevars, extravars>>

\* ---- the job: process_csv run as an asyncio task -----------------------
\* the job is gone: only how it ended is kept
Ended(how) == [pc |-> how, cancel |-> FALSE, total |-> 0, processed |-> 0]

\* counting a full batch whatever the length of the last slice
BatchLenFull(total, done) == batch_size

\* len(batch_results) of the batch texts_to_translate[i:i + batch_size]
BatchLen(total, done) == Min(batch_size, total - done)

\* a job that reports the size of the last batch instead of the running sum
processed_count_batch(done, n) == n

\* processed_count += len(batch_texts)
processed_count(done, n) == done + n

\* First step of the job.  A job cancelled before it ever ran ends
\* cancelled.  Otherwise read the table (a missing or unreadable file and
\* a table without "source" column raise), count the units to translate
\* and report (0, total).
JobStart(id) ==
    /\ jobs[id].pc = "created"
    /\ IF jobs[id].cancel
       THEN /\ jobs' = [jobs EXCEPT ![id] = Ended("cancelled")]
            /\ UNCHANGED tasks
       ELSE IF <<id, "upload">> \notin files
       THEN /\ jobs' = [jobs EXCEPT ![id] = Ended("raised")]
            /\ UNCHANGED tasks
       ELSE \/ /\ jobs' = [jobs EXCEPT ![id] = Ended("raised")]
               /\ UNCHANGED tasks
            \/ \E total \in InputTotals :
               /\ jobs' = [jobs EXCEPT ![id] =
                               [pc |-> "cb", cancel |-> FALSE,
                                total |-> total, processed |-> 0]]
               /\ tasks' = progress_callback(tasks, id, 0, total)
    /\ UNCHANGED <<program, files, running_async_tasks, wpc, task_id,
                   final_status, nextId, response>>
    /\ UNCHANGED <<pipevars, extravars>>

\* The job resumes from the broadcast inside progress_callback: a pending
\* cancellation is raised there; in main.py so is a failed send.  Then
\* either nothing is left (for no work at all the table is copied to the
\* processed file first) and the job returns, or the next batch is
\* dispatched and the job waits in gather.
JobResume(id) ==
    /\ jobs[id].pc = "cb"
    /\ IF jobs[id].cancel
       THEN /\ jobs' = [jobs EXCEPT ![id] = Ended("cancelled")]
            /\ UNCHANGED files
       ELSE \/ /\ program = "main"
               /\ jobs' = [jobs EXCEPT ![id] = Ended("raised")]
               /\ UNCHANGED files
            \/ IF jobs[id].total = 0
               THEN /\ jobs' = [jobs EXCEPT ![id] = Ended("returned")]
                    /\ files' = files \cup {<<id, "processed">>}
               ELSE IF jobs[id].processed < jobs[id].total
               THEN /\ jobs' = [jobs EXCEPT ![id].pc = "gather"]
                    /\ UNCHANGED files
               ELSE /\ jobs' = [jobs EXCEPT ![id] = Ended("returned")]
                    /\ UNCHANGED files
    /\ UNCHANGED <<program, tasks, running_async_tasks, wpc, task_id,
                   final_status, nextId, response>>
    /\ UNCHANGED <<pipevars, extravars>>

\* The gather of one batch completes (translate_text raises nothing): a
\* pending cancellation is raised instead; otherwise the batch is counted,
\* the table is written to the processed file (a failed write raises) and
\* the progress is reported.
JobBatch(id) ==
    /\ jobs[id].pc = "gather"
    /\ IF jobs[id].cancel
       THEN /\ jobs' = [jobs EXCEPT ![id] = Ended("cancelled")]
            /\ UNCHANGED <<tasks, files>>
       ELSE \/ /\ jobs' = [jobs EXCEPT ![id] = Ended("raised")]
               /\ UNCHANGED <<tasks, files>>
            \/ /\ jobs' = [jobs EXCEPT
                     ![id].processed =
                         processed_count(jobs[id].processed,
                                         BatchLen(jobs[id].total, jobs[id].processed)),
                     ![id].pc = "cb"]
               /\ files' = files \cup {<<id, "processed">>}
               /\ tasks' = progress_callback(tasks, id,
                     processed_count(jobs[id].processed,
                                     BatchLen(jobs[id].total, jobs[id].processed)),
                     jobs[id].total)
    /\ UNCHANGED <<program, running_async_tasks, wpc, task_id,
                   final_status, nextId, response>>
    /\ UNCHANGED <<pipevars, extravars>>

\* ---- the worker after the job -------------------------------------------
\* a worker that puts a failed task back in the queue
FinalStatusRequeue(how) ==
    IF how = "returned" THEN "completed"
    ELSE IF how = "cancelled" THEN "cancelled"
    ELSE "pending"

\* handlers in the wrong order: a cancellation is taken for a failure
FinalStatusCancelAsError(how) == IF how = "returned" THEN "completed" ELSE "error"

\* try / except CancelledError / except Exception around "await process_task"
FinalStatusOf(how) ==
    IF how = "returned" THEN "completed"
    ELSE IF how = "cancelled" THEN "cancelled"
    ELSE "error"

\* a worker that does not wait for its job
JobDoneNoWait(j) == TRUE

\* "await process_task" returns or raises only once the job is done
JobDone(j) == j.pc \in JobEnded

\* a finally block that leaves the handle in the registry
UnregisterNothing(reg, id) == reg

\* if task_id in running_async_tasks: del running_async_tasks[task_id]
Unregister(reg, id) == reg \ {id}

\* a final write that puts the record back when it is gone
WriteFinalUpsert(ts, id, s) ==
    IF id \in StoreIds(ts) THEN SetStatus(ts, id, s)
    ELSE Append(ts, [id |-> id, status |-> s, processed |-> 0, total |-> 0,
                     api_token |-> "none"])

\* write the final status only if the record is still in the store
WriteFinal(ts, id, s) == IF id \in StoreIds(ts) THEN SetStatus(ts, id, s) ELSE ts

\* the worker's reference to a finished asyncio task is dropped
Release(j) == IF j.pc \in JobEnded THEN NoJob ELSE j

\* The awaited job is done: classify how it ended, and in the finally block
\* unregister it, re-read the store and write the final status.
FinishJob ==
    /\ wpc = "await_job"
    /\ JobDone(jobs[task_id])
    /\ final_status' = FinalStatusOf(jobs[task_id].pc)
    /\ running_async_tasks' = Unregister(running_async_tasks, task_id)
    /\ tasks' = WriteFinal(tasks, task_id, FinalStatusOf(jobs[task_id].pc))
    /\ jobs' = [jobs EXCEPT ![task_id] = Release(jobs[task_id])]
    /\ wpc' = "bcast_final"
    /\ UNCHANGED <<program, files, task_id, nextId, response>>
    /\ UNCHANGED <<pipevars, extravars>>

\* The final broadcast is over; the cycle ends in asyncio.sleep(5).  The
\* locals of the cycle are dead from here on.
FinalBroadcast ==
    /\ wpc = "bcast_final"
    /\ wpc' = "sleep"
    /\ task_id' = 0
    /\ final_status' = ""
    /\ UNCHANGED <<program, tasks, files, running_async_tasks, jobs, nextId, response>>
    /\ UNCHANGED <<pipevars, extravars>>

\* ---- specification ------------------------------------------------------
Upload == \E tok \in Credentials, ext \in Extensions : handle_upload(tok, ext)

Delete == \E id \in Ids, tok \in Credentials : delete_task(id, tok)

JobStep == \E id \in Ids : JobStart(id) \/ JobResume(id) \/ JobBatch(id)

Next ==
    \/ Upload
    \/ Delete
    \/ PollCycle
    \/ Sleep
    \/ StartJob
    \/ BroadcastFails
    \/ JobStep
    \/ FinishJob
    \/ FinalBroadcast

Spec == Init /\ [][Next]_vars

\* The event loop runs every coroutine that is ready: the job, and the
\* worker once its job is done.
FairSpec == Spec /\ WF_vars(JobStep) /\ WF_vars(FinishJob)

\* ... and the worker itself whenever it can take its next step: its poll,
\* its sleep, the job call and the last broadcast all return.
FairWorkerSpec ==
    /\ FairSpec
    /\ WF_vars(PollCycle) /\ WF_vars(Sleep)
    /\ WF_vars(StartJob) /\ WF_vars(FinalBroadcast)

TypeOK ==
    /\ program \in Programs
    /\ nextId \in 1..(MaxTasks + 1)
    /\ running_async_tasks \subseteq Ids
    /\ wpc \in {"poll", "bcast_running", "await_job", "bcast_final", "sleep", "dead"}
    /\ \A i \in 1..Len(tasks) :
          /\ tasks[i].id \in Ids
          /\ tasks[i].status \in {"pending", "running"} \cup Terminal

\* ---- the pipeline on a table ----------------------------------------------
\* One run of process_csv seen cell by cell, and a second run, without
\* overwrite, on the same file or on the first run's result.  Cells are
\* text; a table always has a target column.

\* cells of an input file
Sources == {"", " ", "hi"}

Targets == {"", "old", "NA"}

\* strings pandas.read_csv takes for a missing value (keep_default_na is
\* left at True); of its list the model uses the empty cell and NA
NaMarkers == {"", "NA"}

\* text.strip() == ""
Blank == {"", " "}

\* what one request to the model comes to: a reply with this content, or
\* an exception
GatewayOutcomes ==
    {[ok |-> TRUE, content |-> "tr"],
     [ok |-> TRUE, content |-> ""],
     [ok |-> FALSE, content |-> ""]}

\* values of the batch_size argument: cli.py --batch-size, and the 10 of
\* every task of the service
BatchSizes == {1, batch_size}

Rows == [source : Sources, target : Targets]

\* input files: a table of up to MaxRows rows, or a file without a
\* source column
InputFiles ==
    {[has_source |-> FALSE, rows |-> <<>>]}
      \cup {[has_source |-> TRUE, rows |-> r] :
               r \in UNION {[1..n -> Rows] : n \in 0..MaxRows}}

\* a pipeline that writes its result over the file it read
ProcessedPathInPlace(p) == p

\* csv_path.with_name(f"{csv_path.stem}_processed.csv")
ProcessedPath(p) == [stem |-> Append(p.stem, "_processed"), suffix |-> ".csv"]

\* one text cell through pd.read_csv and fillna('').astype(str): a missing
\* value becomes the empty string
read_cell(c) == IF c \in NaMarkers THEN "" ELSE c

\* the table of a file, both columns normalised
read_csv(file) ==
    [i \in 1..Len(file.rows) |->
        [source |-> read_cell(file.rows[i].source),
         target |-> read_cell(file.rows[i].target)]]

\* df.to_csv(path, index=False): the cells as they are in memory
to_csv(d) == [has_source |-> TRUE, rows |-> d]

\* a selection that also asks for a source text
mask_with_source(row, ow) == row.source # "" /\ (ow \/ row.target = "")

\* rows_to_process_mask for one row; with overwrite every row is taken
mask(row, ow) == ow \/ row.target = ""

\* df.index[rows_to_process_mask], in row order
Selected(d, ow) ==
    SelectSeq([i \in 1..Len(d) |-> i], LAMBDA i : mask(d[i], ow))

\* a shim that answers a failed request with the empty string
on_error_empty(text) == ""

\* except Exception: return text_to_translate
on_error(text) == text

\* a shim that sends blank text to the model as well
NeedsCallAlways(text) == TRUE

\* translate_text returns blank text at once, before any request
NeedsCall(text) == text \notin Blank

\* translate_text for text without padding and a reply without quotes
translate_text(text, out) ==
    IF ~NeedsCall(text) THEN text
    ELSE IF out.ok THEN out.content
    ELSE on_error(text)

\* a zero-work branch that writes nothing
WriteNever(f, p, content) == f

\* if not processed_filepath.exists(): df.to_csv(processed_filepath)
WriteIfAbsent(f, p, content) ==
    IF p \in DOMAIN f THEN f
    ELSE [q \in DOMAIN f \cup {p} |-> IF q = p THEN content ELSE f[q]]

\* a checkpoint that is put off: the table stays in memory
WriteDeferred(f, p, content) == f

\* df.to_csv(processed_filepath): create or replace
Write(f, p, content) ==
    [q \in DOMAIN f \cup {p} |-> IF q = p THEN content ELSE f[q]]

total_to_translate == Len(indices_to_update)

\* a loop that sends every remaining unit in one gather
PipeBatchLenAll == total_to_translate - pcount

\* len(batch_texts) of the batch about to run
PipeBatchLen == Min(bsize, total_to_translate - pcount)

PipeInit ==
    /\ program = "main"
    /\ tasks = <<>>
    /\ files = {}
    /\ running_async_tasks = {}
    /\ jobs = [i \in Ids |-> NoJob]
    /\ wpc = "poll"
    /\ task_id = 0
    /\ final_status = ""
    /\ nextId = 1
    /\ response = NoRequest
    /\ \E file \in InputFiles : fs = [p \in {UploadPath} |-> file]
    /\ csv_path = NoPath
    /\ overwrite = FALSE
    /\ bsize = batch_size
    /\ df = <<>>
    /\ indices_to_update = <<>>
    /\ pcount = 0
    /\ reported = <<0, 0>>
    /\ calls = 0
    /\ failed = {}
    /\ rerun = FALSE
    /\ ppc = "idle"
    /\ ExtraIdle

\* process_csv up to its first await: read the file, check the source
\* column, normalise both columns, select the rows, report (0, total).
\* A second run follows a run that returned; it does not overwrite.
PipeStart(path, ow, bs) ==
    /\ \/ ppc = "idle"
       \/ ppc = "returned" /\ ~rerun /\ ~ow /\ bs = bsize
    /\ path \in DOMAIN fs
    /\ rerun' = (ppc # "idle")
    /\ csv_path' = path
    /\ overwrite' = ow
    /\ bsize' = bs
    /\ pcount' = 0
    /\ calls' = 0
    /\ failed' = {}
    /\ IF ~fs[path].has_source
       THEN /\ df' = <<>>
            /\ indices_to_update' = <<>>
            /\ reported' = <<0, 0>>
            /\ ppc' = "raised"
       ELSE /\ df' = read_csv(fs[path])
            /\ indices_to_update' = Selected(read_csv(fs[path]), ow)
            /\ reported' = <<0, Len(Selected(read_csv(fs[path]), ow))>>
            /\ ppc' = "cb"
    /\ UNCHANGED fs
    /\ UNCHANGED <<taskvars, extravars>>

\* back from progress_callback: with nothing selected the table is
\* written unless a result file is there already, and the run returns
\* (the write may fail); else the next batch is sent, or all are done.
PipeResume ==
    /\ ppc = "cb"
    /\ IF total_to_translate = 0
       THEN \/ /\ fs' = WriteIfAbsent(fs, ProcessedPath(csv_path), to_csv(df))
               /\ ppc' = "returned"
            \/ /\ ProcessedPath(csv_path) \notin DOMAIN fs
               /\ ppc' = "raised"
               /\ UNCHANGED fs
       ELSE /\ ppc' = IF pcount < total_to_translate THEN "gather" ELSE "returned"
            /\ UNCHANGED fs
    /\ UNCHANGED <<csv_path, overwrite, bsize, df, indices_to_update, pcount,
                   reported, calls, failed, rerun>>
    /\ UNCHANGED <<taskvars, extravars>>

\* the gather of one batch is complete: every unit has its result, the
\* results go into the table, the batch is counted, the table is written
\* to the result file (a failed write raises) and progress is reported.
PipeBatch ==
    /\ ppc = "gather"
    /\ \E outs \in [1..PipeBatchLen -> GatewayOutcomes] :
         LET row(k) == indices_to_update[pcount + k]
             asked == {k \in 1..PipeBatchLen : NeedsCall(df[row(k)].source)}
             newdf == [i \in 1..Len(df) |->
                         IF \E k \in 1..PipeBatchLen : row(k) = i
                         THEN [df[i] EXCEPT !.target =
                                  translate_text(df[i].source,
                                      outs[CHOOSE k \in 1..PipeBatchLen : row(k) = i])]
                         ELSE df[i]]
         IN  /\ df' = newdf
             /\ pcount' = processed_count(pcount, PipeBatchLen)
             /\ calls' = calls + Cardinality(asked)
             /\ failed' = failed \cup {row(k) : k \in {a \in asked : ~outs[a].ok}}
             /\ \/ /\ fs' = Write(fs, ProcessedPath(csv_path), to_csv(newdf))
                   /\ reported' = <<processed_count(pcount, PipeBatchLen),
                                    total_to_translate>>
                   /\ ppc' = "cb"
                \/ /\ ppc' = "raised"
                   /\ UNCHANGED <<fs, reported>>
    /\ UNCHANGED <<csv_path, overwrite, bsize, indices_to_update, rerun>>
    /\ UNCHANGED <<taskvars, extravars>>

\* a cancellation handler that rolls back: the result file is removed
PipeCancelRollsBack ==
    /\ ppc \in {"cb", "gather"}
    /\ ppc' = "cancelled"
    /\ fs' = [q \in DOMAIN fs \ {ProcessedPath(csv_path)} |-> fs[q]]
    /\ UNCHANGED <<csv_path, overwrite, bsize, df, indices_to_update,
                   pcount, reported, calls, failed, rerun>>
    /\ UNCHANGED <<taskvars, extravars>>

\* the run is cancelled while it waits (callback or gather)
PipeCancel ==
    /\ ppc \in {"cb", "gather"}
    /\ ppc' = "cancelled"
    /\ UNCHANGED <<fs, csv_path, overwrite, bsize, df, indices_to_update,
                   pcount, reported, calls, failed, rerun>>
    /\ UNCHANGED <<taskvars, extravars>>

PipeRun == \E path \in DOMAIN fs, ow \in BOOLEAN, bs \in BatchSizes : PipeStart(path, ow, bs)

PipeNext ==
    \/ PipeRun
    \/ PipeResume
    \/ PipeBatch
    \/ PipeCancel

PipeSpec == PipeInit /\ [][PipeNext]_vars

\* ---- properties --------------------------------------------------------
\* status of the record with this id, "absent" when the store has none
StatusOf(ts, id) ==
    IF IndexOf(ts, id) = 0 THEN "absent" ELSE ts[IndexOf(ts, id)].status

RunningRecords == {i \in 1..Len(tasks) : tasks[i].status = "running"}

ActiveJobs == {id \in Ids : jobs[id].pc \in JobActive}

\* C1: in every reachable state of the store at most one record has
\* status "running".
C1_AtMostOneRunning == Cardinality(RunningRecords) <= 1

\* one record is running while another waits in the store
C1_Witness ==
    /\ Cardinality(RunningRecords) = 1
    /\ \E i \in 1..Len(tasks) : tasks[i].status = "pending"

\* C2: the in-flight registry never holds more than one job, and no two
\* jobs are ever unfinished at once (so no job is created before the
\* previous one has ended).
C2_AtMostOneJob ==
    /\ Cardinality(running_async_tasks) <= 1
    /\ Cardinality(ActiveJobs) <= 1
    /\ ActiveJobs \subseteq running_async_tasks

\* a second job is in flight after an earlier job has ended
C2_Witness ==
    /\ \E i \in 1..Len(tasks) : tasks[i].status \in Terminal
    /\ \E id \in running_async_tasks : jobs[id].pc \in JobActive

\* C3: in every step the status of a record that stays in the store is
\* unchanged, or goes pending -> running, or running -> completed,
\* cancelled or error.
C3_LegalTransitions ==
    [][\A i \in 1..Len(tasks), j \in 1..Len(tasks') :
          tasks[i].id = tasks'[j].id
          => \/ tasks'[j].status = tasks[i].status
             \/ tasks[i].status = "pending" /\ tasks'[j].status = "running"
             \/ tasks[i].status = "running" /\ tasks'[j].status \in Terminal]_vars

\* a record keeps its terminal status while the worker has started the next task
C3_Witness ==
    /\ wpc = "await_job"
    /\ \E i \in 1..Len(tasks) : tasks[i].status \in Terminal
    /\ \E i \in 1..Len(tasks) : tasks[i].status = "running"

\* C4: ids are generated in upload order; when a record goes
\* pending -> running no record with a smaller id is pending, and a
\* polling cycle that finds no pending record changes nothing but the
\* worker's own position.
C4_Fifo ==
    [][/\ \A i \in 1..Len(tasks), j \in 1..Len(tasks') :
             (tasks[i].id = tasks'[j].id /\ tasks[i].status = "pending"
                  /\ tasks'[j].status = "running")
             => \A k \in 1..Len(tasks) :
                   tasks[k].id < tasks[i].id => tasks[k].status # "pending"
       /\ (wpc = "poll" /\ wpc' # "poll" /\ pending_task(tasks) = 0)
             => /\ wpc' = "sleep"
                /\ UNCHANGED <<tasks, files, running_async_tasks, jobs>>]_vars

\* the oldest pending task has just been marked running, a newer one waits
C4_Witness ==
    /\ wpc = "bcast_running"
    /\ StatusOf(tasks, task_id) = "running"
    /\ \E m \in Ids : m > task_id /\ StatusOf(tasks, m) = "pending"

\* a delete request has just been answered
DeleteAnswered == response' # response /\ response'.op = "delete"

\* the credential that owns a record: its api_token; main.py keeps no
\* owner with a task, every task belongs to the holder of API_TOKEN
OwnerToken(ts, id) ==
    IF program = "main" THEN API_TOKEN ELSE ts[IndexOf(ts, id)].api_token

\* C5 (as stated): a delete by the owner removes the record whatever its
\* status, and whenever the deleted record has status "running" a
\* cancellation has been requested on the job of that task.
C5_DeleteCancelsRunning ==
    [][(DeleteAnswered /\ response'.id \in StoreIds(tasks)
           /\ response'.token = OwnerToken(tasks, response'.id))
          => /\ response'.code = 200
             /\ response'.id \notin StoreIds(tasks')
             /\ StatusOf(tasks, response'.id) = "running"
                   => jobs'[response'.id].cancel]_vars

\* C6: a record deleted while its job is registered in flight is followed
\* by a state whose registry does not hold its id, and an id that has left
\* the store never comes back.
C6_DeletedMidRun ==
    /\ \A id \in Ids :
          (id \in running_async_tasks /\ id \notin StoreIds(tasks))
              ~> (id \notin running_async_tasks)
    /\ [][\A id \in Ids :
             (id < nextId /\ id \notin StoreIds(tasks))
                 => id \notin StoreIds(tasks')]_vars

\* the job of a deleted task has unwound by cancellation and is unregistered
C6_Witness ==
    /\ wpc = "bcast_final"
    /\ final_status = "cancelled"
    /\ task_id \notin running_async_tasks
    /\ task_id \notin StoreIds(tasks)

\* C7: a delete by a caller whose credential is not the owner's is
\* answered 401 or 403, a delete of an unknown id 401 or 404, and neither
\* changes the store, the jobs, the registry or the files.
C7_RejectedDelete ==
    [][DeleteAnswered
          => /\ (response'.id \in StoreIds(tasks)
                     /\ response'.token # OwnerToken(tasks, response'.id))
                   => /\ response'.code \in {401, 403}
                      /\ UNCHANGED <<tasks, files, jobs, running_async_tasks>>
             /\ response'.id \notin StoreIds(tasks)
                   => /\ response'.code \in {401, 404}
                      /\ UNCHANGED <<tasks, files, jobs, running_async_tasks>>]_vars

\* a valid token that is not the owner's has been refused, the record stays
C7_Witness ==
    /\ response.op = "delete"
    /\ response.code = 403
    /\ response.id \in StoreIds(tasks)
    /\ response.token \in ValidTokens(program)
    /\ tasks[IndexOf(tasks, response.id)].api_token # response.token
    /\ <<response.id, "upload">> \in files

\* C8: when the worker leaves "await process_task", final_status is
\* "completed" exactly if the job returned, "cancelled" exactly if it ended
\* by cancellation, "error" exactly if it raised anything else, and that
\* is the status written to the record if the store still has it.
C8_FinalStatus ==
    [][(wpc = "await_job" /\ wpc' # "await_job")
          => /\ final_status' = "completed" <=> jobs[task_id].pc = "returned"
             /\ final_status' = "cancelled" <=> jobs[task_id].pc = "cancelled"
             /\ final_status' = "error" <=> jobs[task_id].pc = "raised"
             /\ task_id \in StoreIds(tasks)
                   => StatusOf(tasks', task_id) = final_status']_vars

\* one task has ended by itself, and the job of the next one was cancelled
C8_Witness ==
    /\ wpc = "bcast_final"
    /\ final_status = "cancelled"
    /\ task_id \notin StoreIds(tasks)
    /\ \E id \in Ids : StatusOf(tasks, id) \in {"completed", "error"}

\* C9: when the awaited job has ended the worker unregisters it, writes
\* the final status to its record if the store has one and otherwise
\* leaves the store as it is, and goes on to the broadcast; and no step
\* puts into the store an id other than the one a new upload generates.
C9_FinalWrite ==
    [][/\ (wpc = "await_job" /\ wpc' # "await_job")
             => /\ task_id \notin running_async_tasks'
                /\ wpc' = "bcast_final"
                /\ IF task_id \in StoreIds(tasks)
                   THEN tasks' = SetStatus(tasks, task_id, final_status')
                   ELSE tasks' = tasks
       /\ StoreIds(tasks') \ StoreIds(tasks) \subseteq {nextId}
       /\ nextId' = nextId => StoreIds(tasks') \subseteq StoreIds(tasks)]_vars

\* the job of a deleted task has ended and the worker has gone through finally
C9_Witness ==
    /\ wpc = "bcast_final"
    /\ task_id \notin StoreIds(tasks)
    /\ task_id \notin running_async_tasks
    /\ final_status \in {"completed", "error"}

\* C10: every record of the store has processed <= total.
C10_ProcessedAtMostTotal ==
    \A i \in 1..Len(tasks) : tasks[i].processed <= tasks[i].total

\* a run of more than one batch whose last batch was not full has been reported
C10_Witness ==
    \E i \in 1..Len(tasks) :
        /\ tasks[i].total > batch_size
        /\ tasks[i].total % batch_size # 0
        /\ tasks[i].processed = tasks[i].total

\* C11: within one run the persisted count of finished units never goes
\* down: a record that is running keeps or raises its processed count in
\* every step that leaves it in the store.
C11_ProcessedMonotone ==
    [][\A i \in 1..Len(tasks) : \A j \in 1..Len(tasks') :
          (tasks[i].id = tasks'[j].id /\ tasks[i].status = "running")
              => tasks'[j].processed >= tasks[i].processed]_vars

\* a running record whose count has grown over more than one batch
C11_Witness ==
    \E i \in 1..Len(tasks) :
        /\ tasks[i].status = "running"
        /\ tasks[i].processed > batch_size
        /\ tasks[i].processed = tasks[i].total

\* C12: a record with status "completed" has processed = total, and that
\* total is the number of units the job selected when it started: the
\* record of a job that is under way carries the job's total, the job
\* never changes it, and the step that completes the record keeps it.
C12_CompletedIsFull ==
    [][\A j \in 1..Len(tasks') :
          LET id == tasks'[j].id
          IN  /\ tasks'[j].status = "completed"
                    => tasks'[j].processed = tasks'[j].total
              /\ jobs'[id].pc \in {"cb", "gather"}
                    => tasks'[j].total = jobs'[id].total
              /\ (jobs[id].pc \in {"cb", "gather"} /\ jobs'[id].pc \in {"cb", "gather"})
                    => jobs'[id].total = jobs[id].total
              /\ (tasks'[j].status = "completed" /\ StatusOf(tasks, id) = "running")
                    => tasks'[j].total = tasks[IndexOf(tasks, id)].total]_vars

\* a completed task of exactly one unit shows 1 of 1
C12_Witness ==
    \E i \in 1..Len(tasks) :
        /\ tasks[i].status = "completed"
        /\ tasks[i].processed = 1
        /\ tasks[i].total = 1

\* C13: after a task has ended in "error" the worker goes on: a task that
\* waits while the store holds a failed one is started (or deleted) on a
\* later cycle.
C13_ErrorThenNext ==
    \A id \in Ids :
        (StatusOf(tasks, id) = "pending"
            /\ \E i \in 1..Len(tasks) : tasks[i].status = "error")
          ~> (StatusOf(tasks, id) # "pending")

processed_filepath == ProcessedPath(csv_path)

\* a step that creates the file at p or changes its content
Written(p) == p \in DOMAIN fs' /\ (p \notin DOMAIN fs \/ fs'[p] # fs[p])

\* C14 as stated: a unit whose request to the model failed gets the empty
\* string as its result.
C14_FailureGivesEmpty ==
    [][\A i \in failed' \ failed : df'[i].target = ""]_vars

\* C14, amended: a unit whose request failed gets its own source text as
\* its result and nothing is raised for it: the whole batch is counted,
\* and when the checkpoint is written it holds every result of the batch
\* and the run goes on to its next await.
C14_FailureKeepsText ==
    [][failed' \ failed # {}
          => /\ \A i \in failed' \ failed : df'[i].target = df[i].source
             /\ pcount' = pcount + PipeBatchLen
             /\ Written(processed_filepath)
                   => /\ fs'[processed_filepath] = to_csv(df')
                      /\ reported' = <<pcount', total_to_translate>>
                      /\ ppc' = "cb"]_vars

\* a run of several batches has returned although a request failed, and
\* a unit of a later batch was translated
C14_Witness ==
    /\ ppc = "returned"
    /\ bsize = 1
    /\ \E i \in failed : \E j \in 1..Len(df) :
          j > i /\ j \notin failed /\ df[j].target = "tr"

\* C15: without overwrite, every row whose target cell was not empty in
\* the file the run read has that same target cell in every checkpoint
\* and in the final result the run writes.
C15_TargetsPreserved ==
    [][(~overwrite' /\ Written(ProcessedPath(csv_path')))
          => \A i \in 1..Len(fs[csv_path'].rows) :
                fs[csv_path'].rows[i].target # ""
                  => fs'[ProcessedPath(csv_path')].rows[i].target
                        = fs[csv_path'].rows[i].target]_vars

\* rows of the result of the first run whose target cell reads as empty
StillEmpty ==
    {i \in 1..Len(fs[csv_path].rows) : fs[csv_path].rows[i].target \in NaMarkers}

\* C16 as stated: a run without overwrite on the result of a completed
\* run selects nothing, counts nothing and sends no request.
C16_SecondRunEmpty ==
    (rerun /\ csv_path = ProcessedPath(UploadPath))
        => /\ total_to_translate = 0
           /\ pcount = 0
           /\ calls = 0

\* C16, amended: a run without overwrite on the result of a completed run
\* selects exactly the rows whose target is still empty there, sends
\* requests for none but those of them with a source text, and selects,
\* counts and sends nothing when no target is empty.
C16_SecondRun ==
    (rerun /\ csv_path = ProcessedPath(UploadPath))
        => /\ indices_to_update =
                 SelectSeq([i \in 1..Len(fs[csv_path].rows) |-> i],
                           LAMBDA i : i \in StillEmpty)
           /\ calls <= Cardinality({i \in StillEmpty :
                                      fs[csv_path].rows[i].source \notin Blank})
           /\ StillEmpty = {}
                 => /\ total_to_translate = 0
                    /\ pcount = 0
                    /\ calls = 0
                    /\ reported = <<0, 0>>

\* a first run translated a unit and the second run, on its result, has
\* returned with nothing to do
C16_Witness ==
    /\ rerun
    /\ csv_path = ProcessedPath(UploadPath)
    /\ ppc = "returned"
    /\ total_to_translate = 0
    /\ \E i \in 1..Len(df) :
          fs[UploadPath].rows[i].target = "" /\ df[i].target = "tr"

\* a run that got past the checks of its input
Selecting == ppc \in {"cb", "gather", "returned", "cancelled"}

\* C17 as stated: the work list is the rows with a source text and, when
\* not overwriting, an empty target; the reported total is its size.
C17_WorkListWithSource ==
    Selecting
        => /\ indices_to_update =
                 SelectSeq([i \in 1..Len(fs[csv_path].rows) |-> i],
                           LAMBDA i : /\ fs[csv_path].rows[i].source # ""
                                      /\ overwrite \/ fs[csv_path].rows[i].target = "")
           /\ reported[2] = total_to_translate

\* C17, amended: without overwrite the work list is the rows whose target
\* reads as empty (an empty cell or a missing-value marker), with overwrite
\* it is every row, in both cases whatever the source cell holds; the
\* reported total is its size.
C17_WorkList ==
    Selecting
        => /\ indices_to_update =
                 SelectSeq([i \in 1..Len(fs[csv_path].rows) |-> i],
                           LAMBDA i : overwrite
                                      \/ fs[csv_path].rows[i].target \in NaMarkers)
           /\ reported[2] = total_to_translate

\* without overwrite a row with no source text is on the list and a row
\* with a translation is not
C17_Witness ==
    /\ ppc = "cb"
    /\ ~overwrite
    /\ pcount = 0
    /\ \E k \in 1..Len(indices_to_update) : df[indices_to_update[k]].source = ""
    /\ \E i \in 1..Len(df) :
          df[i].target = "old" /\ \A k \in 1..Len(indices_to_update) : indices_to_update[k] # i

\* C18: no step of a run changes or removes the file the run reads;
\* whatever a run writes goes to its result path, which is another path.
C18_InputUntouched ==
    [][/\ csv_path' \in DOMAIN fs
             => csv_path' \in DOMAIN fs' /\ fs'[csv_path'] = fs[csv_path']
       /\ \A p \in DOMAIN fs' :
             Written(p) => p = ProcessedPath(csv_path') /\ p # csv_path'
       /\ DOMAIN fs \subseteq DOMAIN fs']_vars

\* a run was cancelled after a checkpoint that differs from its input
C18_Witness ==
    /\ ppc = "cancelled"
    /\ processed_filepath \in DOMAIN fs
    /\ fs[processed_filepath] # fs[csv_path]
    /\ pcount > 0

\* C19 as stated: a run that finds nothing to do and returns leaves a
\* result file that holds the current table.
C19_ZeroWorkCopiesTable ==
    (ppc = "returned" /\ total_to_translate = 0)
        => /\ processed_filepath \in DOMAIN fs
           /\ fs[processed_filepath] = to_csv(df)

\* C19, amended: every run that returns leaves a result file; a run that
\* finds nothing to do writes the current table there when no file is at
\* that path, and leaves a file that is there as it is.
C19_ZeroWorkLeavesFile ==
    [][ppc' = "returned"
          => /\ ProcessedPath(csv_path') \in DOMAIN fs'
             /\ (ppc = "cb" /\ total_to_translate = 0)
                   => fs'[processed_filepath] =
                         IF processed_filepath \in DOMAIN fs
                         THEN fs[processed_filepath]
                         ELSE to_csv(df)]_vars

\* a first run found nothing to do in a table with rows and returned
C19_Witness ==
    /\ ppc = "returned"
    /\ ~rerun
    /\ total_to_translate = 0
    /\ Len(df) > 0
    /\ processed_filepath \in DOMAIN fs
    /\ fs[processed_filepath] = to_csv(df)

\* ---- the observer channel -------------------------------------------------
\* Connections of observers and the broadcasts that follow a write of the
\* store.  The store is seen as the number of writes made so far; a
\* snapshot is the number read when the message was built.  A send to a
\* connection whose peer is gone fails; any other send succeeds.

\* list.remove(x) / the guarded removal of ws.py
Remove(list, o) == SelectSeq(list, LAMBDA x : x # o)

\* main.py awaits send_json bare; ws.py catches WebSocketDisconnect and
\* RuntimeError of the send and drops the connection
SendFailureCaught(p) == p = "routers"

\* ws.py sends the task list to a new connection; main.py does not
InitialSnapshot(p) == p = "routers"

WsInit ==
    /\ program \in Programs
    /\ tasks = <<>>
    /\ files = {}
    /\ running_async_tasks = {}
    /\ jobs = [i \in Ids |-> NoJob]
    /\ wpc = "poll"
    /\ task_id = 0
    /\ final_status = ""
    /\ nextId = 1
    /\ response = NoRequest
    /\ PipeIdle
    /\ WsIdle
    /\ StoreIdle
    /\ DocIdle
    /\ CodecIdle
    /\ GlossIdle

outsideWs == <<taskvars, pipevars, storevars, docvars, codecvars, glossvars>>

\* websocket_endpoint: accept, register, and in ws.py send the current
\* task list to the new connection
Connect(o) ==
    /\ obs[o] = "new"
    /\ obs' = [obs EXCEPT ![o] = "open"]
    /\ active_connections' = Append(active_connections, o)
    /\ seen' = IF InitialSnapshot(program) THEN [seen EXCEPT ![o] = version] ELSE seen
    /\ UNCHANGED <<version, bc>>
    /\ UNCHANGED outsideWs

\* the peer goes away; the endpoint has not been resumed yet
Drop(o) ==
    /\ obs[o] = "open"
    /\ obs' = [obs EXCEPT ![o] = "closed"]
    /\ UNCHANGED <<active_connections, seen, version, bc>>
    /\ UNCHANGED outsideWs

\* receive_text raises WebSocketDisconnect in the endpoint: disconnect
Disconnect(o) ==
    /\ obs[o] = "closed"
    /\ obs' = [obs EXCEPT ![o] = "gone"]
    /\ active_connections' = Remove(active_connections, o)
    /\ UNCHANGED <<seen, version, bc>>
    /\ UNCHANGED outsideWs

\* range of a list
Members(list) == {list[k] : k \in 1..Len(list)}

\* broadcast_tasks up to its first await, after write number v: main.py
\* reads the store once and walks the live list; ws.py walks a copy and
\* reads the store again for every connection
Begin(v) ==
    IF active_connections = <<>>
    THEN [NoBroadcast EXCEPT !.ver = v]
    ELSE [pc |-> "run", ver |-> v, msg |-> v,
          copy |-> IF program = "routers" THEN active_connections ELSE <<>>,
          i |-> 1, cur |-> active_connections[1],
          start |-> Members(active_connections), tried |-> {}]

\* a coroutine writes the store and calls broadcast_tasks; the worker of
\* main.py writes no more once a broadcast has raised in it
Mutate(b) ==
    /\ version < MaxWrites
    /\ \/ bc[b].pc = "idle"
       \/ bc[b].pc = "raised" /\ b = "handler"
    /\ version' = version + 1
    /\ bc' = [bc EXCEPT ![b] = Begin(version + 1)]
    /\ UNCHANGED <<active_connections, obs, seen>>
    /\ UNCHANGED outsideWs

\* the list the loop of this broadcast walks
Walked(b) == IF program = "routers" THEN bc[b].copy ELSE active_connections

\* the loop after a send: the next connection, or the end of the broadcast
Advance(b, list) ==
    IF bc[b].i + 1 <= Len(list)
    THEN [bc[b] EXCEPT !.i = bc[b].i + 1, !.cur = list[bc[b].i + 1],
                       !.tried = bc[b].tried \cup {bc[b].cur}]
    ELSE [bc[b] EXCEPT !.pc = "idle", !.tried = bc[b].tried \cup {bc[b].cur}]

\* the send under way returns and the loop goes on.  A delivered message
\* is the snapshot built for it: read at the start in main.py, read for
\* this connection in ws.py.
Send(b) ==
    /\ bc[b].pc = "run"
    /\ IF obs[bc[b].cur] = "open"
       THEN /\ seen' = [seen EXCEPT ![bc[b].cur] =
                          IF program = "routers" THEN version ELSE bc[b].msg]
            /\ bc' = [bc EXCEPT ![b] = Advance(b, Walked(b))]
            /\ UNCHANGED active_connections
       ELSE IF SendFailureCaught(program)
       THEN /\ active_connections' = Remove(active_connections, bc[b].cur)
            /\ bc' = [bc EXCEPT ![b] = Advance(b, Walked(b))]
            /\ UNCHANGED seen
       ELSE /\ bc' = [bc EXCEPT ![b].pc = "raised",
                                ![b].tried = bc[b].tried \cup {bc[b].cur}]
            /\ UNCHANGED <<active_connections, seen>>
    /\ UNCHANGED <<obs, version>>
    /\ UNCHANGED outsideWs

Connects == \E o \in Obs : Connect(o)

Drops == \E o \in Obs : Drop(o)

Disconnects == \E o \in Obs : Disconnect(o)

Mutates == \E b \in Bcasts : Mutate(b)

Sends == \E b \in Bcasts : Send(b)

WsNext ==
    \/ Connects
    \/ Drops
    \/ Disconnects
    \/ Mutates
    \/ Sends

WsSpec == WsInit /\ [][WsNext]_vars

\* ---- properties of the observer channel -----------------------------------
\* the broadcast of b ends in this step, normally or by an exception
BroadcastEnds(b) == bc[b].pc = "run" /\ bc'[b].pc # "run"

\* C21: a connection is sent the current task list in the step that
\* registers it, and when the broadcast that follows a write ends, every
\* connection that was registered when it began and is still open has
\* been delivered a snapshot that includes that write.
C21_SnapshotOnConnectAndWrite ==
    [][/\ \A o \in Obs :
             (obs[o] = "new" /\ obs'[o] = "open") => seen'[o] = version'
       /\ \A b \in Bcasts :
             BroadcastEnds(b)
                => \A o \in bc[b].start :
                      obs'[o] = "open" => seen'[o] >= bc[b].ver]_vars

\* C22: a failed send removes the connection it was for from the list and
\* changes nothing else, the broadcast goes on, and when it ends every
\* connection registered at its start has been sent to.
C22_SendFailureDropsOne ==
    [][\A b \in Bcasts :
          /\ (bc[b].pc = "run" /\ bc'[b] # bc[b] /\ obs[bc[b].cur] # "open")
                => /\ active_connections' = Remove(active_connections, bc[b].cur)
                   /\ bc'[b].pc # "raised"
                   /\ seen' = seen
          /\ BroadcastEnds(b) => bc[b].start \subseteq bc'[b].tried]_vars


\* ---- the file of the store ------------------------------------------------
\* tasks.json as the tokens json.dump writes, one at a time, into the file
\* that open(TASKS_FILE, 'w') has emptied.  A task is written as its id.

\* the service variables while only one part of the program is observed
ServiceIdle ==
    /\ program \in Programs
    /\ tasks = <<>>
    /\ files = {}
    /\ running_async_tasks = {}
    /\ jobs = [i \in Ids |-> NoJob]
    /\ wpc = "poll"
    /\ task_id = 0
    /\ final_status = ""
    /\ nextId = 1
    /\ response = NoRequest

\* task lists the store can be given: ids, each at most once
StoreLists ==
    {l \in UNION {[1..n -> Ids] : n \in 0..MaxTasks} :
        \A i, j \in DOMAIN l : l[i] = l[j] => i = j}

\* json.dump(tasks, f): the tokens written, in order
dumps(list) == <<"[">> \o [k \in 1..Len(list) |-> ToString(list[k])] \o <<"]">>

\* the text is a complete JSON list
WellFormed(text) ==
    /\ Len(text) >= 2
    /\ text[1] = "["
    /\ text[Len(text)] = "]"
    /\ \A k \in 2..(Len(text) - 1) : text[k] \notin {"[", "]"}

\* json.load(f) of a complete list
loads(text) ==
    [k \in 1..(Len(text) - 2) |-> CHOOSE i \in Ids : ToString(i) = text[k + 1]]

\* read_tasks: the list in the file, or [] when json.load raises
\* JSONDecodeError
read_tasks ==
    IF WellFormed(tasks_file) THEN loads(tasks_file) ELSE <<>>

StoreInit ==
    /\ ServiceIdle
    /\ PipeIdle
    /\ WsIdle
    /\ StoreIdle
    /\ DocIdle
    /\ CodecIdle
    /\ GlossIdle

outsideStore == <<taskvars, pipevars, wsvars, docvars, codecvars, glossvars>>

\* write_tasks, entered: open(TASKS_FILE, 'w') empties the file
OpenForWrite(new) ==
    /\ swpc = "idle"
    /\ wold' = read_tasks
    /\ wnew' = new
    /\ tasks_file' = <<>>
    /\ swpc' = "writing"
    /\ fresh' = FALSE
    /\ UNCHANGED lastread
    /\ UNCHANGED outsideStore

\* json.dump: the next token reaches the file
WriteChunk ==
    /\ swpc = "writing"
    /\ Len(tasks_file) < Len(dumps(wnew))
    /\ tasks_file' = Append(tasks_file, dumps(wnew)[Len(tasks_file) + 1])
    /\ UNCHANGED <<swpc, wold, wnew, lastread, fresh>>
    /\ UNCHANGED outsideStore

\* the with block of write_tasks is left: the write is complete
CloseFile ==
    /\ swpc = "writing"
    /\ tasks_file = dumps(wnew)
    /\ swpc' = "idle"
    /\ UNCHANGED <<tasks_file, wold, wnew, lastread, fresh>>
    /\ UNCHANGED outsideStore

\* the process is killed
Crash ==
    /\ swpc # "down"
    /\ swpc' = "down"
    /\ UNCHANGED <<tasks_file, wold, wnew, lastread, fresh>>
    /\ UNCHANGED outsideStore

\* the process is started again; initialize_tasks_file finds the file and
\* leaves it
Restart ==
    /\ swpc = "down"
    /\ swpc' = "idle"
    /\ UNCHANGED <<tasks_file, wold, wnew, lastread, fresh>>
    /\ UNCHANGED outsideStore

\* a caller reads the store
ReadStore ==
    /\ swpc = "idle"
    /\ lastread' = read_tasks
    /\ fresh' = TRUE
    /\ UNCHANGED <<tasks_file, swpc, wold, wnew>>
    /\ UNCHANGED outsideStore

OpensForWrite == swpc = "idle" /\ \E new \in StoreLists : OpenForWrite(new)

StoreNext ==
    \/ OpensForWrite
    \/ WriteChunk
    \/ CloseFile
    \/ Crash
    \/ Restart
    \/ ReadStore

StoreSpec == StoreInit /\ [][StoreNext]_vars

\* C23: a read made after a write began returns the list the store held
\* before that write or the list that write was given.
C23_ReadIsOldOrNew == fresh => lastread \in {wold, wnew}


\* ---- one task and its files -----------------------------------------------
\* A task of either file type from its upload to the end of its job, with
\* the files under uploads/ that belong to it, and download_file.  The
\* pipeline is seen batch by batch: n_batches checkpoints to write.

MaxBatches == 2

FileTypes(p) == IF p = "routers" THEN {"csv"} ELSE {"csv", "idml"}

\* UPLOAD_DIR / f"{task_id}_{original_filename}"
filepath == [stem |-> <<"upload">>,
             suffix |-> IF file_type = "idml" THEN ".idml" ELSE ".csv"]

\* idml_path.with_name(f"{idml_path.stem}.csv")
temp_csv_path(p) == [stem |-> p.stem, suffix |-> ".csv"]

\* temp_csv_path.with_name(f"{temp_csv_path.stem}_processed.csv")
translated_csv_path(p) == ProcessedPath(temp_csv_path(p))

\* idml_path.with_name(f"{idml_path.stem}_processed.idml")
final_idml_path(p) == [stem |-> Append(p.stem, "_processed"), suffix |-> ".idml"]

\* what download_file of main.py looks for while a document task runs
temp_processed_path(p) ==
    [stem |-> Append(p.stem, "_temp_processed"), suffix |-> ".csv"]

\* the file the pipeline writes for this task
checkpoint_path ==
    IF file_type = "idml" THEN translated_csv_path(filepath)
                          ELSE ProcessedPath(filepath)

\* names bound in the module process.py: its imports and its definitions
process_names ==
    {"asyncio", "pd", "ollama", "io", "zipfile", "ET", "Path",
     "translate_text", "extract_idml_to_csv", "Callable", "Awaitable", "Dict",
     "ProgressCallback", "load_glossary", "process_csv",
     "_cleanup_temp_files", "process_idml"}

\* _cleanup_temp_files, leaving everything in place
cleanup_temp_files_keeps(f, p) == f

\* _cleanup_temp_files: both intermediate tables are unlinked if they exist
cleanup_temp_files(f, p) == f \ {temp_csv_path(p), translated_csv_path(p)}

DocInit ==
    /\ ServiceIdle
    /\ PipeIdle
    /\ WsIdle
    /\ StoreIdle
    /\ DocIdle
    /\ CodecIdle
    /\ GlossIdle

outsideDoc == <<taskvars, pipevars, wsvars, storevars, codecvars, glossvars>>

\* handle_upload: the file is saved and a pending record is appended
DocEnqueue(t, r, n) ==
    /\ status = "deleted"
    /\ dpc = "none"
    /\ uploads = {}
    /\ got = NoDownload
    /\ file_type' = t
    /\ readable' = r
    /\ n_batches' = n
    /\ status' = "pending"
    /\ uploads' = {[stem |-> <<"upload">>,
                    suffix |-> IF t = "idml" THEN ".idml" ELSE ".csv"]}
    /\ UNCHANGED <<dpc, dcancel, checkpoints, outcome, steps, got>>
    /\ UNCHANGED outsideDoc

\* the worker picks the pending task and marks it running
DocMark ==
    /\ status = "pending"
    /\ dpc = "none"
    /\ status' = "running"
    /\ dpc' = "marked"
    /\ UNCHANGED <<file_type, readable, n_batches, uploads, dcancel,
                   checkpoints, outcome, steps, got>>
    /\ UNCHANGED outsideDoc

\* the worker creates and registers the job; the call of worker.py raises
\* TypeError and ends the worker
DocCreate ==
    /\ dpc = "marked"
    /\ dpc' = IF CallBinds(CallKwargs(program)) THEN "created" ELSE "dead"
    /\ UNCHANGED <<file_type, readable, n_batches, status, uploads, dcancel,
                   checkpoints, outcome, steps, got>>
    /\ UNCHANGED outsideDoc

\* the job is in running_async_tasks and not finished
Registered == dpc \in {"created", "cb0", "gather", "cb"}

\* the job ends: how, with which files and stages
JobEnd(how, f, st) ==
    /\ dpc' = "ended"
    /\ outcome' = how
    /\ uploads' = f
    /\ steps' = st

\* process_csv has returned: a tabular job is over; process_idml goes on
\* to the end without another await
AfterTranslate(f) ==
    IF file_type = "csv"
    THEN JobEnd("completed", f, steps)
    ELSE IF translated_csv_path(filepath) \notin f
    THEN JobEnd("error", cleanup_temp_files(f, filepath),
                Append(steps, "translate"))
    ELSE IF "rebuild_idml_from_csv" \notin process_names
    THEN JobEnd("error", cleanup_temp_files(f, filepath),
                Append(steps, "translate"))
    ELSE JobEnd("completed",
                cleanup_temp_files(f \cup {final_idml_path(filepath)}, filepath),
                steps \o <<"translate", "rebuild", "persist">>)

\* the first step of the job.  Cancelled before it ran, the coroutine is
\* never entered.  process_idml extracts and writes the extracted table,
\* then process_csv reads its table and awaits progress_callback(0, total).
DocBegin ==
    /\ dpc = "created"
    /\ IF dcancel
       THEN JobEnd("cancelled", uploads, steps)
       ELSE IF ~readable
       THEN JobEnd("error",
                   IF file_type = "idml" THEN cleanup_temp_files(uploads, filepath)
                                         ELSE uploads,
                   steps)
       ELSE /\ dpc' = "cb0"
            /\ uploads' = IF file_type = "idml"
                          THEN uploads \cup {temp_csv_path(filepath)}
                          ELSE uploads
            /\ steps' = IF file_type = "idml" THEN Append(steps, "extract") ELSE steps
            /\ UNCHANGED outcome
    /\ UNCHANGED <<file_type, readable, n_batches, status, dcancel, checkpoints, got>>
    /\ UNCHANGED outsideDoc

\* process_idml's except clauses around the await of process_csv
Raised(how) ==
    JobEnd(how,
           IF file_type = "idml" /\ how # "cancelled"
           THEN cleanup_temp_files(uploads, filepath) ELSE uploads,
           steps)

\* progress_callback(0, total) returns: with nothing to translate the
\* table is copied through if no result file exists and process_csv returns
DocResumeFirst ==
    /\ dpc = "cb0"
    /\ IF dcancel
       THEN Raised("cancelled")
       ELSE IF n_batches = 0
       THEN AfterTranslate(uploads \cup {checkpoint_path})
       ELSE /\ dpc' = "gather"
            /\ UNCHANGED <<uploads, outcome, steps>>
    /\ UNCHANGED <<file_type, readable, n_batches, status, dcancel, checkpoints, got>>
    /\ UNCHANGED outsideDoc

\* gather returns: the table is written to the result file and the
\* callback is awaited; the write can fail
DocBatch(ok) ==
    /\ dpc = "gather"
    /\ IF dcancel
       THEN Raised("cancelled") /\ UNCHANGED checkpoints
       ELSE IF ~ok
       THEN Raised("error") /\ UNCHANGED checkpoints
       ELSE /\ dpc' = "cb"
            /\ uploads' = uploads \cup {checkpoint_path}
            /\ checkpoints' = checkpoints + 1
            /\ UNCHANGED <<outcome, steps>>
    /\ UNCHANGED <<file_type, readable, n_batches, status, dcancel, got>>
    /\ UNCHANGED outsideDoc

\* the callback returns: the next batch, or process_csv returns
DocResume ==
    /\ dpc = "cb"
    /\ IF dcancel
       THEN Raised("cancelled")
       ELSE IF checkpoints < n_batches
       THEN /\ dpc' = "gather"
            /\ UNCHANGED <<uploads, outcome, steps>>
       ELSE AfterTranslate(uploads)
    /\ UNCHANGED <<file_type, readable, n_batches, status, dcancel, checkpoints, got>>
    /\ UNCHANGED outsideDoc

\* the worker's finally: the final status is written if the record exists
DocFinish ==
    /\ dpc = "ended"
    /\ dpc' = "done"
    /\ status' = IF status = "deleted" THEN status ELSE outcome
    /\ UNCHANGED <<file_type, readable, n_batches, uploads, dcancel,
                   checkpoints, outcome, steps, got>>
    /\ UNCHANGED outsideDoc

\* files delete_task unlinks: main.py the upload and the final output,
\* routers/tasks.py the intermediate tables of a document task as well
Unlinked(p) ==
    {filepath,
     IF file_type = "idml" THEN final_idml_path(filepath)
                           ELSE ProcessedPath(filepath)}
      \cup IF p = "routers" /\ file_type = "idml"
           THEN {temp_csv_path(filepath), translated_csv_path(filepath)}
           ELSE {}

\* delete_task: cancel the job if registered, remove the record, unlink
DocDelete ==
    /\ status # "deleted"
    /\ dcancel' = (dcancel \/ Registered)
    /\ status' = "deleted"
    /\ uploads' = uploads \ Unlinked(program)
    /\ UNCHANGED <<file_type, readable, n_batches, dpc, checkpoints, outcome,
                   steps, got>>
    /\ UNCHANGED outsideDoc

\* lifespan of main.py after yield: every registered job is cancelled
DocShutdown ==
    /\ program = "main"
    /\ Registered
    /\ ~dcancel
    /\ dcancel' = TRUE
    /\ UNCHANGED <<file_type, readable, n_batches, status, uploads, dpc,
                   checkpoints, outcome, steps, got>>
    /\ UNCHANGED outsideDoc

\* lifespan of main.py goes on after gather and cancels the worker.  With
\* no job registered gather returns at once; with one registered it returns
\* after the worker, woken first by the end of the job, has gone through
\* its finally block.  A worker cancelled in the broadcast that follows
\* the "running" mark is outside every try block.
DocStop ==
    /\ program = "main"
    /\ dpc \in {"none", "marked", "done"}
    /\ dpc' = "stopped"
    /\ UNCHANGED <<file_type, readable, n_batches, status, uploads, dcancel,
                   checkpoints, outcome, steps, got>>
    /\ UNCHANGED outsideDoc

\* the first of the candidates that exists, in order
FirstExisting(cands, f) ==
    LET hits == {k \in 1..Len(cands) : cands[k] \in f}
    IN  IF hits = {} THEN NoPath
        ELSE cands[CHOOSE k \in hits : \A m \in hits : k <= m]

\* download_file: the files it would serve for this record, in the order
\* it tests them
Candidates(p) ==
    IF p = "main"
    THEN (IF status = "completed"
          THEN <<IF file_type = "idml" THEN final_idml_path(filepath)
                                       ELSE ProcessedPath(filepath)>>
          ELSE <<>>)
         \o (IF status = "running"
             THEN <<IF file_type = "idml" THEN temp_processed_path(filepath)
                                          ELSE ProcessedPath(filepath)>>
             ELSE <<>>)
         \o <<filepath>>
    ELSE (IF file_type = "csv" THEN <<ProcessedPath(filepath)>> ELSE <<>>)
         \o (IF status = "completed" /\ file_type = "idml"
             THEN <<final_idml_path(filepath)>> ELSE <<>>)
         \o (IF status # "completed" /\ file_type = "idml"
             THEN <<ProcessedPath(filepath)>> ELSE <<>>)
         \o <<filepath>>

\* download_file for the task, by its owner
download_file ==
    IF status = "deleted"
    THEN [status |-> status, code |-> 404, path |-> NoPath]
    ELSE LET path == FirstExisting(Candidates(program), uploads)
         IN  [status |-> status,
              code |-> IF path = NoPath THEN 404 ELSE 200,
              path |-> path]

DocDownload ==
    /\ dpc # "none"
    /\ got' = download_file
    /\ UNCHANGED <<file_type, readable, n_batches, status, uploads, dpc,
                   dcancel, checkpoints, outcome, steps>>
    /\ UNCHANGED outsideDoc

DocEnqueues ==
    \E t \in FileTypes(program), r \in BOOLEAN, n \in 0..MaxBatches :
        DocEnqueue(t, r, n)

DocBatches == \E ok \in BOOLEAN : DocBatch(ok)

\* the steps of a process that has not been shut down
DocServes ==
    /\ dpc # "stopped"
    /\ \/ DocEnqueues
       \/ DocMark
       \/ DocCreate
       \/ DocBegin
       \/ DocResumeFirst
       \/ DocBatches
       \/ DocResume
       \/ DocFinish
       \/ DocDelete
       \/ DocShutdown
       \/ DocDownload

DocNext ==
    \/ DocServes
    \/ DocStop

DocSpec == DocInit /\ [][DocNext]_vars


\* ---- properties of one task and its files ---------------------------------
\* the final output of the task
final_output ==
    IF file_type = "idml" THEN final_idml_path(filepath) ELSE ProcessedPath(filepath)

\* C24: a download of an existing task returns the final output when the
\* status is completed, the partial result when the status is running and
\* a checkpoint has been written, and the upload for every other status.
C24_DownloadByStatus ==
    [][(got' # got /\ status # "deleted")
          => /\ status = "completed" => got'.path = final_output
             /\ (status = "running" /\ checkpoint_path \in uploads)
                   => got'.path = checkpoint_path
             /\ status \in {"pending", "cancelled", "error"}
                   => got'.path = filepath]_vars

\* the intermediate tables of a document task
Artifacts == {temp_csv_path(filepath), translated_csv_path(filepath)}

JobOver == dpc \in {"ended", "done"}

\* C28 as stated: once the job of a document task is over, both
\* intermediate tables exist if it was cancelled and neither exists
\* otherwise.
C28_ArtifactsIffCancelled ==
    (file_type = "idml" /\ JobOver)
       => IF outcome = "cancelled"
          THEN Artifacts \subseteq uploads
          ELSE Artifacts \cap uploads = {}

\* C28: once the job of a document task is over without cancellation,
\* neither intermediate table exists; when it is over by cancellation no
\* intermediate table is removed, in that step or later: the extracted
\* table is there if the job had extracted, the translated table if a
\* checkpoint had been written.
C28_ArtifactsKeptOnCancelOnly ==
    [][(file_type' = "idml" /\ dpc' \in {"ended", "done"})
          => IF outcome' # "cancelled"
             THEN Artifacts \cap uploads' = {}
             ELSE /\ Artifacts \cap uploads \subseteq uploads'
                  /\ temp_csv_path(filepath) \in uploads'
                        <=> \E k \in DOMAIN steps' : steps'[k] = "extract"
                  /\ translated_csv_path(filepath) \in uploads'
                        <=> checkpoints' > 0]_vars

\* a document job was cancelled after a checkpoint: both tables are there
C28_Witness ==
    /\ file_type = "idml"
    /\ dpc = "done"
    /\ outcome = "cancelled"
    /\ Artifacts \subseteq uploads

StepOrder == <<"extract", "translate", "rebuild", "persist">>

\* C29: the stages of a document job are carried out in the order
\* extract, translate, rebuild, persist; the final document exists only
\* when every batch was checkpointed; and a job whose extraction and
\* translation succeeded ends completed with the final document written.
C29_DocumentCompletes ==
    [][file_type' = "idml"
          => /\ Len(steps') <= Len(StepOrder)
             /\ steps' = SubSeq(StepOrder, 1, Len(steps'))
             /\ final_idml_path(filepath) \in uploads'
                   => checkpoints' = n_batches'
             /\ (dpc # "ended" /\ dpc' = "ended"
                   /\ \E k \in DOMAIN steps' : steps'[k] = "translate")
                   => /\ outcome' = "completed"
                      /\ final_idml_path(filepath) \in uploads']_vars


\* ---- the document codec ---------------------------------------------------
\* An archive is the list of its entries in namelist order.  An entry has a
\* name and its data: for a story file the texts of its Content runs in
\* document order, for any other entry its bytes.  A table is the list of
\* the rows of a CSV text.

MaxEntries == 2     \* entries of an archive
MaxRuns == 2        \* Content runs of a document, over all its stories

\* texts of a run: none, blank, with and without surrounding space, and a
\* text pandas reads as a missing value
RunTexts == {"", " ", " hi", "hi", "NA"}

\* translations written into the target column
Translations == {"", "U"}

EntryNames ==
    {[prefix |-> "", base |-> "mimetype", suffix |-> ""],
     [prefix |-> "Stories/Story_", base |-> "u1", suffix |-> ".xml"],
     [prefix |-> "Stories/Story_", base |-> "u1", suffix |-> ".bak"]}

\* f.startswith('Stories/Story_') and f.endswith('.xml')
is_story(name) == name.prefix = "Stories/Story_" /\ name.suffix = ".xml"

\* str.strip on the texts of RunTexts
strip(t) == CASE t = " " -> ""
              [] t = " hi" -> "hi"
              [] OTHER -> t

\* entries an archive can hold, with at most r runs in a story file
Entries(r) ==
    {[name |-> n, data |-> d] :
        n \in {m \in EntryNames : is_story(m)},
        d \in UNION {[1..k -> RunTexts] : k \in 0..r}}
      \cup {[name |-> n, data |-> <<"b0">>] : n \in {m \in EntryNames : ~is_story(m)}}

RECURSIVE Runs(_)
\* the texts of all Content runs of the story files, in discovery order
Runs(a) ==
    IF a = <<>> THEN <<>>
    ELSE (IF is_story(Head(a).name) THEN Head(a).data ELSE <<>>) \o Runs(Tail(a))

RECURSIVE ArchivesOf(_, _)
\* archives of at most n entries with at most r runs in all
ArchivesOf(n, r) ==
    IF n = 0 THEN {<<>>}
    ELSE {<<>>} \cup
         UNION {{<<e>> \o a :
                    a \in ArchivesOf(n - 1,
                                     IF is_story(e.name) THEN r - Len(e.data) ELSE r)} :
                   e \in Entries(r)}

Archives == ArchivesOf(MaxEntries, MaxRuns)

\* the loop of extract_idml_to_csv and its filter: the stripped text of
\* every run that has text, the empty ones removed
stories_content(a) ==
    LET stripped == [k \in 1..Len(SelectSeq(Runs(a), LAMBDA t : t # "")) |->
                        strip(SelectSeq(Runs(a), LAMBDA t : t # "")[k])]
    IN  SelectSeq(stripped, LAMBDA t : t # "")

\* extract_idml_to_csv: a row per text, with an empty target
extract_idml_to_csv(a) ==
    [k \in 1..Len(stories_content(a)) |->
        [source |-> stories_content(a)[k], target |-> ""]]

\* df['source'].astype(str).fillna('') after pd.read_csv: a missing value
\* is the float nan, astype(str) makes it the text 'nan', and fillna finds
\* nothing to fill
read_source(c) == IF c \in NaMarkers THEN "nan" ELSE c

\* dict(zip(df.source, df.target)): the keys
map_keys(t) == {read_source(t[k].source) : k \in 1..Len(t)}

\* dict(zip(df.source, df.target)): a later row replaces an earlier one
translation_map(t, key) ==
    LET ks == {k \in 1..Len(t) : read_source(t[k].source) = key}
        last == CHOOSE k \in ks : \A m \in ks : m <= k
    IN  read_cell(t[last].target)

\* a translation is written into the run whatever it is
ReplacesAlways(translated_text) == TRUE

\* 'only replace if the translation is a non-empty string'
Replaces(translated_text) == translated_text # ""

\* the text of one run after the loop of rebuild_idml_from_csv
rebuilt_text(t, text) ==
    LET original_text == IF text # "" THEN strip(text) ELSE ""
    IN  IF original_text \in map_keys(t)
           /\ Replaces(translation_map(t, original_text))
        THEN translation_map(t, original_text)
        ELSE text

\* an entry written without its data
CopiedEntryEmpty(e) == [e EXCEPT !.data = <<>>]

\* new_zip.writestr(item, old_zip.read(item.filename))
CopiedEntry(e) == e

\* rebuild_idml_from_csv: every entry of the original, in order
rebuild_idml_from_csv(a, t) ==
    [k \in 1..Len(a) |->
        IF ~is_story(a[k].name)
        THEN CopiedEntry(a[k])
        ELSE [name |-> a[k].name,
              data |-> [r \in 1..Len(a[k].data) |-> rebuilt_text(t, a[k].data[r])]]]

CodecInit ==
    /\ ServiceIdle
    /\ PipeIdle
    /\ WsIdle
    /\ StoreIdle
    /\ DocIdle
    /\ CodecIdle
    /\ GlossIdle

outsideCodec == <<taskvars, pipevars, wsvars, storevars, docvars, glossvars>>

\* an archive is uploaded
CodecOpen(a) ==
    /\ cpc = "none"
    /\ idml' = a
    /\ cpc' = "opened"
    /\ UNCHANGED <<csv, rebuilt>>
    /\ UNCHANGED outsideCodec

\* extract_idml_to_csv
CodecExtract ==
    /\ cpc = "opened"
    /\ csv' = extract_idml_to_csv(idml)
    /\ cpc' = "extracted"
    /\ UNCHANGED <<idml, rebuilt>>
    /\ UNCHANGED outsideCodec

\* the target column of the extracted table is filled in
CodecTranslate(tr) ==
    /\ cpc = "extracted"
    /\ csv # <<>>
    /\ csv' = [k \in 1..Len(csv) |-> [source |-> csv[k].source, target |-> tr[k]]]
    /\ cpc' = "translated"
    /\ UNCHANGED <<idml, rebuilt>>
    /\ UNCHANGED outsideCodec

\* rebuild_idml_from_csv on the original archive and the table
CodecRebuild ==
    /\ cpc \in {"extracted", "translated"}
    /\ rebuilt' = rebuild_idml_from_csv(idml, csv)
    /\ cpc' = "rebuilt"
    /\ UNCHANGED <<idml, csv>>
    /\ UNCHANGED outsideCodec

CodecOpens == cpc = "none" /\ \E a \in Archives : CodecOpen(a)

CodecTranslates ==
    cpc = "extracted" /\ \E tr \in [1..Len(csv) -> Translations] : CodecTranslate(tr)

CodecNext ==
    \/ CodecOpens
    \/ CodecExtract
    \/ CodecTranslates
    \/ CodecRebuild

CodecSpec == CodecInit /\ [][CodecNext]_vars

\* ---- properties of the codec ----------------------------------------------
\* C25: the rebuilt archive has the names of the original in the same
\* order, and every entry that is not a story file has the same bytes.
C25_NamesAndOtherEntriesKept ==
    cpc = "rebuilt"
       => /\ Len(rebuilt) = Len(idml)
          /\ \A k \in 1..Len(idml) :
                /\ rebuilt[k].name = idml[k].name
                /\ ~is_story(idml[k].name) => rebuilt[k].data = idml[k].data

\* an archive with a story file between two other entries was rebuilt with
\* a translation
C25_Witness ==
    /\ cpc = "rebuilt"
    /\ \E k \in 1..Len(idml) : ~is_story(idml[k].name)
    /\ \E k \in 1..Len(idml) : is_story(idml[k].name) /\ rebuilt[k] # idml[k]

\* C26: extract followed by rebuild with a target column that is empty in
\* every row gives back the text of every run and every other entry.
C26_EmptyRoundTrip ==
    (cpc = "rebuilt" /\ \A k \in 1..Len(csv) : csv[k].target = "")
       => rebuilt = idml

\* a document with text went through the round trip untranslated
C26_Witness ==
    /\ cpc = "rebuilt"
    /\ csv # <<>>
    /\ \A k \in 1..Len(csv) : csv[k].target = ""
    /\ rebuilt = idml

\* runs of the document whose stripped text is T
RunsWith(T) == {k \in 1..Len(Runs(idml)) : strip(Runs(idml)[k]) = T}

\* C27: the table extracted from the document has one row per run with a
\* non-empty stripped text, in discovery order, and when every row of a
\* text T carries the non-empty translation U, every run whose stripped
\* text is T reads U after the rebuild.
C27_DuplicatesAllReplaced ==
    /\ cpc \in {"extracted", "translated", "rebuilt"}
          => /\ \A T \in RunTexts \ {""} :
                   Cardinality({k \in 1..Len(csv) : csv[k].source = T})
                      = Cardinality(RunsWith(T))
             /\ [k \in 1..Len(csv) |-> csv[k].source]
                   = SelectSeq([k \in 1..Len(Runs(idml)) |-> strip(Runs(idml)[k])],
                               LAMBDA t : t # "")
    /\ cpc = "rebuilt"
          => \A T \in RunTexts \ {""}, U \in Translations \ {""} :
                (/\ RunsWith(T) # {}
                 /\ \A k \in 1..Len(csv) : csv[k].source = T => csv[k].target = U)
                   => \A k \in RunsWith(T) : Runs(rebuilt)[k] = U


\* ---- the glossary rules of a prompt ---------------------------------------
\* A glossary file is a table: a term per row, a column per language.  A
\* text is the list of its words.  A rule is the term it is about, what it
\* asks (always: translate as given; keep: do not translate), and the
\* translation it mandates.

MaxWords == 2       \* words of a text

Terms == {"AP", "LAN"}

Langs == {"de", "fr"}

Words == {"AP", "APs", "LAN"}

\* cells of a glossary file: empty, a missing-value marker, a translation
GlossCells == {"", "NA", "tr"}

\* glossary files: some of the terms, some of the languages
GlossaryFiles ==
    UNION {[ts -> [cs -> GlossCells]] : ts \in SUBSET Terms, cs \in SUBSET Langs}

Texts == UNION {[1..n -> Words] : n \in 0..MaxWords}

\* load_glossary: pd.read_csv, missing values become None (here ""), and
\* to_dict('index')
load_glossary(file) ==
    [t \in DOMAIN file |-> [l \in DOMAIN file[t] |-> read_cell(file[t][l])]]

\* re.search(r'\b' + re.escape(term) + r'\b', stripped_text) for a term
\* that is one word
matches(term, words) == \E k \in 1..Len(words) : words[k] = term

\* translations.get(target_lang): None (here "") without the key
get(translations, lang) ==
    IF lang \in DOMAIN translations THEN translations[lang] ELSE ""

\* a term without a translation for the language gets no rule
no_entry_rules_none(term) == {}

\* the else branch: 'Do not translate ...; keep it exactly as written'
no_entry_rules(term) == {[term |-> term, kind |-> "keep", as |-> ""]}

\* the rules translate_text puts into the prompt
rules(g, words, lang) ==
    IF DOMAIN g = {} \/ words = <<>>
    THEN {}
    ELSE UNION {IF get(g[term], lang) # ""
                THEN {[term |-> term, kind |-> "always", as |-> get(g[term], lang)]}
                ELSE no_entry_rules(term) :
                   term \in {t \in DOMAIN g : matches(t, words)}}

GlossInit ==
    /\ ServiceIdle
    /\ PipeIdle
    /\ WsIdle
    /\ StoreIdle
    /\ DocIdle
    /\ CodecIdle
    /\ GlossIdle

outsideGloss == <<taskvars, pipevars, wsvars, storevars, docvars, codecvars>>

\* process_csv loads the glossary of the task
GlossLoad(file) ==
    /\ gpc = "none"
    /\ glossary' = load_glossary(file)
    /\ gpc' = "loaded"
    /\ UNCHANGED <<text_words, target_lang, prompt_instructions>>
    /\ UNCHANGED outsideGloss

\* translate_text builds the prompt for one text
GlossCompile(words, lang) ==
    /\ gpc = "loaded"
    /\ text_words' = words
    /\ target_lang' = lang
    /\ prompt_instructions' = rules(glossary, words, lang)
    /\ gpc' = "compiled"
    /\ UNCHANGED glossary
    /\ UNCHANGED outsideGloss

GlossLoads == gpc = "none" /\ \E file \in GlossaryFiles : GlossLoad(file)

GlossCompiles ==
    gpc = "loaded" /\ \E words \in Texts, lang \in Langs : GlossCompile(words, lang)

GlossNext ==
    \/ GlossLoads
    \/ GlossCompiles

GlossSpec == GlossInit /\ [][GlossNext]_vars

\* ---- properties of the glossary rules -------------------------------------
\* the glossary has a translation of the term for the language asked for
HasEntry(term) == get(glossary[term], target_lang) # ""

RulesFor(term) == {r \in prompt_instructions : r.term = term}

\* C30 as stated: a matching term without an entry for the target language
\* gets no rule of either kind
C30_NoEntryNoRule ==
    gpc = "compiled"
       => \A term \in DOMAIN glossary :
             (matches(term, text_words) /\ ~HasEntry(term)) => RulesFor(term) = {}

\* C30: a matching term gets exactly one rule: the mandated translation
\* when the glossary has an entry for the target language, and the
\* do-not-translate rule when it has none; a term that does not match gets
\* no rule.
C30_NoEntryKeepsTerm ==
    gpc = "compiled"
       => \A term \in DOMAIN glossary :
             RulesFor(term) =
                IF ~matches(term, text_words) THEN {}
                ELSE IF HasEntry(term)
                THEN {[term |-> term, kind |-> "always",
                       as |-> get(glossary[term], target_lang)]}
                ELSE {[term |-> term, kind |-> "keep", as |-> ""]}

\* the text holds a term that the glossary translates into another
\* language only
C30_Witness ==
    /\ gpc = "compiled"
    /\ \E term \in DOMAIN glossary :
          /\ matches(term, text_words)
          /\ target_lang \notin DOMAIN glossary[term]
          /\ DOMAIN glossary[term] # {}
          /\ RulesFor(term) = {[term |-> term, kind |-> "keep", as |-> ""]}


\* ---- batches, checkpoints and cancellation of one run ---------------------
\* requests of the batch in gather that are with the model: one per unit
\* of the batch whose text is not blank
InFlight ==
    IF ppc = "gather"
    THEN Cardinality({k \in 1..PipeBatchLen :
                         NeedsCall(df[indices_to_update[pcount + k]].source)})
    ELSE 0

\* the result file holds the table as it is in memory
Checkpointed ==
    /\ ProcessedPath(csv_path) \in DOMAIN fs
    /\ fs[ProcessedPath(csv_path)] = to_csv(df)

\* C31: while a batch is in gather at most batch_size requests are in
\* flight, and a batch after the first is in gather only when every unit
\* before it has been counted, written to the result file and reported.
C31_BatchesInOrder ==
    /\ InFlight <= bsize
    /\ (ppc = "gather" /\ pcount > 0)
          => /\ Checkpointed
             /\ reported = <<pcount, total_to_translate>>
             /\ pcount % bsize = 0

\* the second batch is with the model, the first is in the result file
C31_Witness ==
    /\ ppc = "gather"
    /\ pcount > 0
    /\ InFlight = bsize
    /\ Checkpointed

\* C32: whenever n > 0 units are reported the result file holds the
\* results of the first n units of the work list; a report is (0, total)
\* at the start of a run or, after a batch, the count of all batches so far
\* together with a file that holds the whole table.
C32_CheckpointBeforeReport ==
    /\ reported[1] > 0
          => /\ ProcessedPath(csv_path) \in DOMAIN fs
             /\ \A k \in 1..reported[1] :
                   fs[ProcessedPath(csv_path)].rows[indices_to_update[k]]
                       = df[indices_to_update[k]]
    /\ ppc = "cb"
          => \/ reported = <<0, total_to_translate>> /\ pcount = 0
             \/ /\ reported = <<pcount, total_to_translate>>
                /\ pcount = Min(total_to_translate,
                                bsize * ((pcount + bsize - 1) \div bsize))
                /\ Checkpointed

\* the first of two batches has been reported and is in the result file
C32_Witness ==
    /\ ppc = "cb"
    /\ reported = <<1, 2>>
    /\ Checkpointed

\* the rows of the units not yet counted are as they were read
Untouched ==
    \A k \in (pcount + 1)..total_to_translate :
        df[indices_to_update[k]] = read_csv(fs[csv_path])[indices_to_update[k]]

\* C33: a run cancelled in a batch ends cancelled with its result file as
\* the last finished batch left it: the whole table with the results of the
\* batches counted and of no unit after them; cancelled before its first
\* batch ended, a first run has written no result file.
C33_CancelKeepsCheckpoint ==
    [][(ppc = "gather" /\ ppc' = "cancelled")
          => /\ fs' = fs
             /\ Untouched'
             /\ pcount' > 0 => Checkpointed'
             /\ (pcount' = 0 /\ ~rerun')
                   => ProcessedPath(csv_path') \notin DOMAIN fs']_vars

\* cancelled in the second batch: the first is in the file, the second is not
C33_Witness ==
    /\ ppc = "cancelled"
    /\ pcount = 1
    /\ total_to_translate = 2
    /\ Checkpointed
    /\ NeedsCall(df[indices_to_update[2]].source)


\* ---- the scheduler among concurrent requests --------------------------------
\* C34 (as stated): in the step that creates a job and registers it the
\* store holds a record with the job's task id and status "running".
C34_JobOnlyForLiveTask ==
    [][\A id \in running_async_tasks' \ running_async_tasks :
          StatusOf(tasks', id) = "running"]_vars

\* C35: an id leaves the store only in the step that answers a delete of
\* that id with 200, an id enters it only in the step that accepts an
\* upload and stays in it through that step, so no write of the worker or
\* of a job drops or restores a record.
C35_NoLostUpdate ==
    [][/\ \A id \in StoreIds(tasks) \ StoreIds(tasks') :
             /\ DeleteAnswered
             /\ response'.id = id
             /\ response'.code = 200
       /\ \A id \in StoreIds(tasks') \ StoreIds(tasks) :
             /\ id = nextId
             /\ nextId' = nextId + 1
       /\ nextId' # nextId => StoreIds(tasks') = StoreIds(tasks) \cup {nextId}]_vars

\* a task enqueued while another task's job has reported a batch: both
\* records are in the store
C35_Witness ==
    /\ wpc = "await_job"
    /\ Len(tasks) = 2
    /\ tasks[1].status = "running"
    /\ tasks[1].processed > 0
    /\ tasks[2].status = "pending"
    /\ tasks[2].id > tasks[1].id

\* C36 (as stated): every record that is running is later completed,
\* cancelled, in error or deleted.
C36_RunningEnds ==
    \A id \in Ids :
        (StatusOf(tasks, id) = "running") ~> (StatusOf(tasks, id) # "running")

\* C39 (as stated): no failed send to an observer ends the worker loop, and
\* no job that comes back from a progress notification uncancelled ends
\* with an exception.
C39_ObserverFailureHarmless ==
    [][/\ (program = "main" /\ wpc \in {"bcast_running", "bcast_final"})
             => wpc' # "dead"
       /\ \A id \in Ids :
             (jobs[id].pc = "cb" /\ ~jobs[id].cancel) => jobs'[id].pc # "raised"]_vars


\* ---- shutdown and restart -------------------------------------------------
\* C38 (as stated): once lifespan has stopped the worker, the store holds
\* no record with status "running".
C38_ShutdownLeavesNoRunning == dpc = "stopped" => status # "running"

\* stores a process can leave behind: up to MaxTasks records in upload
\* order, at most one of them running
PersistedStores(p) ==
    {ts \in UNION {[1..n -> [id : Ids,
                             status : {"pending", "running"} \cup Terminal,
                             processed : {0}, total : {0},
                             api_token : {IF p = "main" THEN "none" ELSE "t1"}]]
                      : n \in 0..MaxTasks} :
        /\ \A i \in 1..Len(ts) : ts[i].id = i
        /\ Cardinality({i \in 1..Len(ts) : ts[i].status = "running"}) <= 1}

\* a process starts on the store the last one left: lifespan writes the
\* empty list only when tasks.json does not exist, the registry is empty,
\* no job exists and the worker is at its first poll
RestartInit ==
    /\ program \in Programs
    /\ tasks \in PersistedStores(program)
    /\ files = {<<i, "upload">> : i \in 1..Len(tasks)}
    /\ running_async_tasks = {}
    /\ jobs = [i \in Ids |-> NoJob]
    /\ wpc = "poll"
    /\ task_id = 0
    /\ final_status = ""
    /\ nextId = Len(tasks) + 1
    /\ response = NoRequest
    /\ PipeIdle
    /\ ExtraIdle

\* the service after a restart; the event loop runs the worker and the
\* jobs whenever they can take a step
RestartSpec ==
    /\ RestartInit
    /\ [][Next]_vars
    /\ WF_vars(JobStep) /\ WF_vars(FinishJob)
    /\ WF_vars(PollCycle) /\ WF_vars(Sleep)
    /\ WF_vars(StartJob) /\ WF_vars(FinalBroadcast)

HasPending == \E i \in 1..Len(tasks) : tasks[i].status = "pending"

\* C37 (as stated): whenever the store holds a pending record, later the
\* worker has just marked a record running (or no record is pending any
\* more), also when the process started on a store with a running record.
C37_QueueProgress == HasPending ~> (wpc = "bcast_running" \/ ~HasPending)

\* ---- the task list as a caller sees it ------------------------------------
\* GET /tasks of routers/tasks.py: every record with every field it has,
\* and is_owner added; main.py returns the list as it is
get_tasks(ts, tok) ==
    [i \in 1..Len(ts) |->
        [id |-> ts[i].id, status |-> ts[i].status,
         processed |-> ts[i].processed, total |-> ts[i].total,
         api_token |-> ts[i].api_token,
         is_owner |-> IF program = "main" THEN FALSE ELSE ts[i].api_token = tok]]

\* send_tasks_to_connection: the payload for a connection opened with tok,
\* a copy of every record with is_owner added
send_tasks_to_connection(ts, tok) ==
    [i \in 1..Len(ts) |->
        [id |-> ts[i].id, status |-> ts[i].status,
         processed |-> ts[i].processed, total |-> ts[i].total,
         api_token |-> ts[i].api_token,
         is_owner |-> ts[i].api_token = tok]]

\* tokens api_tokens.json may list
OwnerTokens == {"t1", "t2", "t3"}

\* the stores that differ from ts at most in the owner tokens of records
\* tok does not own, which stay records tok does not own
OtherOwners(ts, tok) ==
    {[i \in 1..Len(ts) |-> [ts[i] EXCEPT !.api_token = owner[i]]] :
        owner \in {o \in [1..Len(ts) -> OwnerTokens] :
                      \A i \in 1..Len(ts) :
                          IF ts[i].api_token = tok THEN o[i] = tok
                                                   ELSE o[i] # tok}}

\* C40 (as stated): for every caller, the List response and the observer
\* payload are the same for any two stores that differ only in the owner
\* tokens of records the caller does not own.
C40_SnapshotHidesOwners ==
    program = "routers"
       => \A tok \in ValidTokens(program) :
             \A ts2 \in OtherOwners(tasks, tok) :
                 /\ get_tasks(ts2, tok) = get_tasks(tasks, tok)
                 /\ send_tasks_to_connection(ts2, tok)
                        = send_tasks_to_connection(tasks, tok)

=============================================================================
